---- MODULE Spec2Model ----
(***************************************************************************)
(* State-machine model of the mixed bike / car ring-road cellular          *)
(* automaton (src/src/road.rs, src/src/bike.rs, src/src/car.rs).           *)
(*                                                                         *)
(* Agents live in arrays (here sequences, ids 1..n instead of 0..n-1), the *)
(* occupancy index `cells` is the HashMap<Coord, Vehicle> of RoadCells: a   *)
(* function whose domain is the set of keys present.                       *)
(* Real-valued car parameters are kept in hundredths (3.6 -> 360).         *)
(***************************************************************************)
EXTENDS Integers, Sequences, FiniteSets, TLC

VARIABLES
    bikes,   \* Road.bikes : [Bike; B]
    cars,    \* Road.cars  : [Car; C]
    cells,   \* Road.cells : RoadCells (HashMap<Coord, Vehicle>)
    L,       \* const generic L of Road<B, C, L, BLW, MLW>: the ring length
    BLW,     \* const generic BLW: the bike-lane width
    MLW,     \* const generic MLW: the motor-lane width
    pc,      \* the call in progress / next phase of update()
    result,  \* how the last call ended: "ok", "err" or the panic that aborted it
    debug,   \* whether debug assertions are compiled in (debug vs release build)
    builder  \* the BikeBuilder / CarBuilder chain in progress before Road::new

generics == <<L, BLW, MLW>>

vars == <<bikes, cars, cells, generics, pc, result, debug, builder>>

----------------------------------------------------------------------------
(* Road<B, C, L, BLW, MLW> const generics and the bounds of the model *)

\* ring lengths tried: a short ring for the bike scenarios, one that holds
\* two cars for the car scenarios, one on which two cars can pick up speed
L_SHORT == 6
L_LONG == 11
L_LOOSE == 16

\* lane widths of the roads of the test suite (Road::<_, _, _, 3, 3>) and of
\* the default build (build.rs)
TEST_BLW == 3
TEST_MLW == 3
BL_WIDTH == 7
ML_WIDTH == 7

(* CarBuilder::default(); there is no public setter for these fields *)
CAR_LENGTH == 5
CAR_WIDTH == 360
CAR_ALPHA == 26
CAR_BETA == 60
CAR_SPEED_MAX == 20
CAR_FAST_ACCELERATION == 1
CAR_MAX_SLOW_SPEED == 5
CAR_DECELERATION_PROB == 20

total_width == BLW + MLW

----------------------------------------------------------------------------
(* Coord, Vehicle, RectangleOccupier *)

Coord(lat, long) == [lat |-> lat, long |-> long]

None == <<"None", 0>>
VehicleBike(id) == <<"Bike", id>>
VehicleCar(id) == <<"Car", id>>

CoordErr == [lat |-> -1, long |-> -1]

\* RoadCells::validate_coord: Err for a lat off the road, else long rem_euclid L
validate_coord(coord) ==
    IF coord.lat < 0 THEN CoordErr
    ELSE IF coord.lat < total_width
         THEN Coord(coord.lat, coord.long % L)
         ELSE CoordErr

RectangleOccupier(front, right, width, length) ==
    [front |-> front, right |-> right, width |-> width, length |-> length]

left(occ) == occ.right - occ.width + 1
back(occ) == occ.front - occ.length + 1
back_left(occ) == Coord(left(occ), back(occ))
length_iterator(occ) == back(occ)..occ.front
width_iterator(occ) == left(occ)..occ.right

\* rectangle_occupation with half-open ranges: the front long and the right
\* lat are left out and one more long and lat behind them are taken
rectangle_occupation_half_open(front, right, width, length) ==
    [k \in 1..(width * length) |->
        Coord((right - width) + ((k - 1) \div length),
              (front - length) + ((k - 1) % length))]

\* lats from left to right, for each lat the longs from back to front
rectangle_occupation(front, right, width, length) ==
    [k \in 1..(width * length) |->
        Coord((right - width + 1) + ((k - 1) \div length),
              (front - length + 1) + ((k - 1) % length))]

occupied_cells(occ) ==
    rectangle_occupation(occ.front, occ.right, occ.width, occ.length)

front_cells(occ) ==
    [k \in 1..occ.width |-> Coord(left(occ) + (k - 1), occ.front)]

SeqToSet(s) == {s[k] : k \in 1..Len(s)}

\* RoadOccupier::occupier_is_within: some occupied cell has lat < width (the
\* cells of a rectangle are its lats times its longs)
occupier_is_within(occ, width) ==
    /\ length_iterator(occ) # {}
    /\ \E lat \in width_iterator(occ) : lat < width

----------------------------------------------------------------------------
(* Car geometry *)

CeilDiv(a, b) == (a + b - 1) \div b

\* ceil(const_width + alpha * speed) as usize (a negative value casts to 0)
lateral_occupancy(const_width, speed, alpha) ==
    LET w == CeilDiv(const_width + alpha * speed, 100)
    IN  IF w < 0 THEN 0 ELSE w

\* car_occupation with the right edge one lat too far
car_occupation_shifted(car) ==
    LET width == lateral_occupancy(car.const_width, car.speed, car.alpha)
    IN  RectangleOccupier(car.front, width, width, car.length)

car_occupation(car) ==
    LET width == lateral_occupancy(car.const_width, car.speed, car.alpha)
    IN  RectangleOccupier(car.front, width - 1, width, car.length)

car_occupied_cells(car) == occupied_cells(car_occupation(car))

bike_occupation(bike) ==
    RectangleOccupier(bike.front, bike.right, bike.width, bike.length)

bike_occupied_cells(bike) == occupied_cells(bike_occupation(bike))

----------------------------------------------------------------------------
(* The occupancy index *)

\* RoadCells::empty(): no key
EmptyCells == [c \in {} |-> None]

KeySet(cs) == DOMAIN cs

\* the k-th cell rectangle_occupation yields for an occupier
cell_at(occ, k) ==
    Coord(left(occ) + ((k - 1) \div occ.length),
          back(occ) + ((k - 1) % occ.length))

area(occ) == occ.width * occ.length

\* the keys of the first m cells of an occupier
keys_of(occ, m) == {validate_coord(cell_at(occ, k)) : k \in 1..m}

\* insert_cells that leaves the last of the m cells out
insert_cells_short(cs, occ, vehicle, m) ==
    [c \in keys_of(occ, m - 1) |-> vehicle] @@ cs

\* the index after HashMap::insert(cell, vehicle) for the first m cells of an
\* occupier, every one of them on the road; the insert replaces whatever
\* the key held
insert_cells(cs, occ, vehicle, m) ==
    [c \in keys_of(occ, m) |-> vehicle] @@ cs

\* the index after HashMap::remove(cell) for every cell of an occupier
remove_cells(cs, occ) ==
    [c \in (DOMAIN cs) \ keys_of(occ, area(occ)) |-> cs[c]]

\* RoadCells::get on a coord whose lat is on the road
get(cs, lat, long) ==
    LET c == Coord(lat, long % L)
    IN  IF c \in DOMAIN cs THEN cs[c] ELSE None

\* RoadCells::insert: HashMap::insert at the validated coord; the map holds
\* the new vehicle afterwards and the old one, if any, is returned
insert(cs, coord, vehicle) ==
    LET c == validate_coord(coord)
    IN  [cells |-> (c :> vehicle) @@ cs,
         returned |-> IF c \in KeySet(cs) THEN cs[c] ELSE None]

\* Road::iter_car_positions / iter_bike_positions, one item per vehicle:
\* its cells (as the occupier that yields them) and its identity
iter_car_positions(crs) ==
    [i \in 1..Len(crs) |->
        [occupier |-> car_occupation(crs[i]), vehicle |-> VehicleCar(i)]]

iter_bike_positions(bs) ==
    [i \in 1..Len(bs) |->
        [occupier |-> bike_occupation(bs[i]), vehicle |-> VehicleBike(i)]]

\* insert_stops that ignores what HashMap::insert returns
insert_stops_unchecked(cs, occ, k) ==
    validate_coord(cell_at(occ, k)) = CoordErr

\* cell k of the occupier stops the insertion: it is off the road, or the
\* index holds a vehicle there, or an earlier cell of the same occupier has
\* the same long modulo L
insert_stops(cs, occ, k) ==
    LET c == validate_coord(cell_at(occ, k))
    IN  \/ c = CoordErr
        \/ c \in DOMAIN cs
        \/ ((k - 1) % occ.length) >= L

\* HashMap::insert of the cells of the items one by one, stopping at the
\* first cell that is off the road ("lat") or that held a vehicle already
\* ("collision"; the HashMap has replaced the old value by then)
RECURSIVE try_insert_each(_, _, _)
try_insert_each(cs, items, i) ==
    IF i > Len(items)
    THEN [ok |-> TRUE, cells |-> cs, why |-> "none"]
    ELSE LET occ == items[i].occupier
             vehicle == items[i].vehicle
         IN  IF \A k \in 1..area(occ) : ~insert_stops(cs, occ, k)
             THEN try_insert_each(insert_cells(cs, occ, vehicle, area(occ)),
                                  items, i + 1)
             ELSE LET stop == CHOOSE k \in 1..area(occ) :
                                 /\ insert_stops(cs, occ, k)
                                 /\ \A j \in 1..(k - 1) : ~insert_stops(cs, occ, j)
                  IN  IF validate_coord(cell_at(occ, stop)) = CoordErr
                      THEN [ok |-> FALSE, why |-> "lat",
                            cells |-> insert_cells(cs, occ, vehicle, stop - 1)]
                      ELSE [ok |-> FALSE, why |-> "collision",
                            cells |-> insert_cells(cs, occ, vehicle, stop)]

\* TryFrom<&Road> for RoadCells
cells_try_from(bs, crs) ==
    try_insert_each(EmptyCells,
                    iter_car_positions(crs) \o iter_bike_positions(bs), 1)

Min(S) == CHOOSE x \in S : \A y \in S : x <= y
Max(S) == CHOOSE x \in S : \A y \in S : y <= x

\* RoadCells::front_gap(coord, None): the first occupied cell among the
\* L - 1 cells ahead; the found long is start_long + d_long, never below
\* start_long + 1, so the `ahead + L` branch is never taken
cells_front_gap(cs, coord) ==
    LET start == validate_coord(coord)
        Found(d) == get(cs, start.lat, start.long + d) # None
    IN  IF \A d \in 1..(L - 1) : ~Found(d)
        THEN L
        ELSE (CHOOSE d \in 1..(L - 1) :
                 Found(d) /\ \A e \in 1..(d - 1) : ~Found(e)) - 1

\* Road::front_gap: minimum over the front cells
front_gap(cs, occ) ==
    Min({cells_front_gap(cs, Coord(lat, occ.front)) : lat \in width_iterator(occ)})

\* first_car_back that stops at the first occupied cell, a bike included
cells_first_car_back_stopping(cs, coord) ==
    LET Found(d) == get(cs, coord.lat, coord.long - d) # None
    IN  IF \A d \in 1..(L - 1) : ~Found(d)
        THEN 0
        ELSE LET first == CHOOSE d \in 1..(L - 1) :
                             Found(d) /\ \A e \in 1..(d - 1) : ~Found(e)
                 found_vehicle == get(cs, coord.lat, coord.long - first)
             IN  IF found_vehicle[1] = "Car" THEN found_vehicle[2] ELSE 0

\* RoadCells::first_car_back(coord, None): id of the first car among the
\* L - 1 cells behind, bikes skipped; 0 when there is none
cells_first_car_back(cs, coord) ==
    LET Found(d) == get(cs, coord.lat, coord.long - d)[1] = "Car"
    IN  IF \A d \in 1..(L - 1) : ~Found(d)
        THEN 0
        ELSE LET first == CHOOSE d \in 1..(L - 1) :
                             Found(d) /\ \A e \in 1..(d - 1) : ~Found(e)
             IN  get(cs, coord.lat, coord.long - first)[2]

\* route_width without the rem_euclid of the long
route_width_unwrapped(cs, long) ==
    LET Occupied(lat) == [lat |-> lat, long |-> long] \in KeySet(cs)
    IN  IF \E lat \in 0..(total_width - 1) : Occupied(lat)
        THEN Min({lat \in 0..(total_width - 1) : Occupied(lat)})
        ELSE total_width

\* RoadCells::route_width: the first lat of the slice that holds a vehicle,
\* total_width when none does
route_width(cs, long) ==
    LET validated_long == long % L
        Occupied(lat) == [lat |-> lat, long |-> validated_long] \in KeySet(cs)
    IN  IF \E lat \in 0..(total_width - 1) : Occupied(lat)
        THEN Min({lat \in 0..(total_width - 1) : Occupied(lat)})
        ELSE total_width

\* next_iteration_potential_speed without the speed_max cap
next_iteration_potential_speed_uncapped(car) ==
    LET acceleration == IF car.speed <= car.max_slow_speed
                        THEN car.slow_acceleration
                        ELSE car.fast_acceleration
    IN  car.speed + acceleration

\* Car::next_iteration_potential_speed
next_iteration_potential_speed(car) ==
    LET acceleration == IF car.speed <= car.max_slow_speed
                        THEN car.slow_acceleration
                        ELSE car.fast_acceleration
    IN  IF car.speed + acceleration < car.speed_max
        THEN car.speed + acceleration
        ELSE car.speed_max

\* is_blocking that holds whether or not a car is behind the cell
is_blocking_carless(cs, crs, coord) == TRUE

\* Road::is_blocking(coord, None)
is_blocking(cs, crs, coord) ==
    LET car_id == cells_first_car_back(cs, coord)
    IN  /\ car_id # 0
        /\ next_iteration_potential_speed(crs[car_id])
             < crs[car_id].front - coord.long

\* road_contains_occupier without the bounds test
road_contains_occupier_any(occ) == TRUE

\* Road::road_contains_occupier
road_contains_occupier(occ) ==
    \A lat \in width_iterator(occ) : 0 <= lat /\ lat < total_width

\* Road::collisions_for unwraps validate_coord of every cell of the occupier:
\* a cell off the road makes it panic
collisions_panic(occ) ==
    /\ length_iterator(occ) # {}
    /\ \E lat \in width_iterator(occ) : lat < 0 \/ total_width <= lat

\* collisions_for(..).is_empty() that never sees a collision
collisions_for_is_empty_always(cs, occ) == TRUE

\* Road::collisions_for(occupier).is_empty()
collisions_for_is_empty(cs, occ) ==
    \A lat \in width_iterator(occ), long \in length_iterator(occ) :
        get(cs, lat, long) = None

\* Road::is_collision_for
is_collision_for(cs, occ, vehicle) ==
    \E lat \in width_iterator(occ), long \in length_iterator(occ) :
        /\ get(cs, lat, long) # None
        /\ get(cs, lat, long) # vehicle

motor_lane_contains_occupier(occ) == occupier_is_within(occ, MLW)

----------------------------------------------------------------------------
(* Bike: lateral update *)

\* a Bernoulli draw that can go either way whatever p is
Sample_unsure(p) == BOOLEAN

\* a Bernoulli draw with probability p percent: the outcomes it can give
Sample(p) == IF p = 0 THEN {FALSE} ELSE IF p = 100 THEN {TRUE} ELSE BOOLEAN

\* Bike::potential_lateral_positions, left to right
potential_lateral_positions(bike) ==
    [k \in 1..(2 * bike.rightward_speed_max + 1) |->
        bike.right - bike.rightward_speed_max + (k - 1)]

\* y_prime_j_t_plus_1 without the test for other vehicles
y_prime_j_t_plus_1_on_road(cs, bike, self_id) ==
    LET candidates == [k \in 1..Len(potential_lateral_positions(bike)) |->
                         [bike_occupation(bike) EXCEPT
                            !.right = potential_lateral_positions(bike)[k]]]
        Keep(occ) == road_contains_occupier(occ)
    IN  SelectSeq(candidates, Keep)

\* y_prime_j_t_plus_1 that lets a candidate lie on the cells of a car
y_prime_j_t_plus_1_over_cars(cs, bike, self_id) ==
    LET candidates == [k \in 1..Len(potential_lateral_positions(bike)) |->
                         [bike_occupation(bike) EXCEPT
                            !.right = potential_lateral_positions(bike)[k]]]
        Keep(occ) == /\ road_contains_occupier(occ)
                     /\ \A lat \in width_iterator(occ),
                           long \in length_iterator(occ) :
                           get(cs, lat, long)[1] = "Bike"
                              => get(cs, lat, long) = VehicleBike(self_id)
    IN  SelectSeq(candidates, Keep)

\* Bike::y_prime_j_t_plus_1: on the road and free of other vehicles
y_prime_j_t_plus_1(cs, bike, self_id) ==
    LET candidates == [k \in 1..Len(potential_lateral_positions(bike)) |->
                         [bike_occupation(bike) EXCEPT
                            !.right = potential_lateral_positions(bike)[k]]]
        Keep(occ) == /\ road_contains_occupier(occ)
                     /\ ~is_collision_for(cs, occ, VehicleBike(self_id))
    IN  SelectSeq(candidates, Keep)

\* the filter determination with occupier_is_entirely_within in place of
\* occupier_is_within
determine_y_prime_prime_j_t_plus_1_filter_entirely(cs, crs, current_occupation) ==
    IF /\ length_iterator(current_occupation) # {}
       /\ \A lat \in width_iterator(current_occupation) : lat < MLW
    THEN IF is_blocking(cs, crs, back_left(current_occupation))
         THEN "MotorLaneBlocking"
         ELSE "MotorLaneNonBlocking"
    ELSE "BikeLane"

\* determine_y_prime_prime_j_t_plus_1_filter
determine_y_prime_prime_j_t_plus_1_filter(cs, crs, current_occupation) ==
    IF motor_lane_contains_occupier(current_occupation)
    THEN IF is_blocking(cs, crs, back_left(current_occupation))
         THEN "MotorLaneBlocking"
         ELSE "MotorLaneNonBlocking"
    ELSE "BikeLane"

\* y_prime_prime_motor_lane_blocking with .first() in place of .last()
y_prime_prime_motor_lane_blocking_first(y_prime) ==
    LET OnMotor(occ) == motor_lane_contains_occupier(occ)
        OnBike(occ) == ~motor_lane_contains_occupier(occ)
        on_motor_lane == SelectSeq(y_prime, OnMotor)
        on_bike_lane == SelectSeq(y_prime, OnBike)
    IN  IF on_bike_lane = <<>>
        THEN IF on_motor_lane = <<>>
             THEN <<>>
             ELSE <<on_motor_lane[1]>>
        ELSE on_bike_lane

\* y_prime_prime_motor_lane_blocking; .last().expect(..) panics when no
\* candidate is on the motor lane either
y_prime_prime_motor_lane_blocking(y_prime) ==
    LET OnMotor(occ) == motor_lane_contains_occupier(occ)
        OnBike(occ) == ~motor_lane_contains_occupier(occ)
        on_motor_lane == SelectSeq(y_prime, OnMotor)
        on_bike_lane == SelectSeq(y_prime, OnBike)
    IN  IF on_bike_lane = <<>>
        THEN IF on_motor_lane = <<>>
             THEN <<>>
             ELSE <<on_motor_lane[Len(on_motor_lane)]>>
        ELSE on_bike_lane

\* avoid_blocking_ypp_filter
avoid_blocking_ypp_filter(cs, crs, yp, boundary) ==
    LET Keep(occ) == IF occupier_is_within(occ, boundary)
                     THEN ~is_blocking(cs, crs, back_left(occ))
                     ELSE TRUE
    IN  SelectSeq(yp, Keep)

\* y_prime_prime_j_t_plus_1
y_prime_prime_j_t_plus_1(cs, crs, bike, self_id) ==
    LET current_occupation == bike_occupation(bike)
        y_prime == y_prime_j_t_plus_1(cs, bike, self_id)
        filter == determine_y_prime_prime_j_t_plus_1_filter(cs, crs,
                                                            current_occupation)
    IN  IF filter = "MotorLaneBlocking"
        THEN y_prime_prime_motor_lane_blocking(y_prime)
        ELSE avoid_blocking_ypp_filter(cs, crs, y_prime,
                                       current_occupation.right)

\* the expect("bike should be able to stay still") of the blocking filter
y_prime_prime_panics(cs, crs, bike, self_id) ==
    /\ determine_y_prime_prime_j_t_plus_1_filter(cs, crs, bike_occupation(bike))
         = "MotorLaneBlocking"
    /\ y_prime_j_t_plus_1(cs, bike, self_id) = <<>>

\* Ord::cmp on integers
cmp(a, b) == IF a < b THEN "Less" ELSE IF a = b THEN "Equal" ELSE "Greater"

\* Bike::y_star_cmp_priority
y_star_cmp_priority(cs, lhs, rhs) ==
    LET gaps == cmp(front_gap(cs, lhs), front_gap(cs, rhs))
    IN  IF gaps # "Equal"
        THEN gaps
        ELSE IF motor_lane_contains_occupier(lhs)
                   /\ motor_lane_contains_occupier(rhs)
             THEN cmp(left(lhs), left(rhs))
             ELSE IF motor_lane_contains_occupier(lhs)
             THEN "Less"
             ELSE IF motor_lane_contains_occupier(rhs)
             THEN "Greater"
             ELSE "Equal"

\* Bike::generate_y_stars: Y'' sorted (stably) by y_star_cmp_priority, cut
\* after the candidates that compare Equal with the first
generate_y_stars(cs, crs, bike, self_id) ==
    LET y_prime_prime == y_prime_prime_j_t_plus_1(cs, crs, bike, self_id)
        First(occ) == \A other \in SeqToSet(y_prime_prime) :
                          y_star_cmp_priority(cs, occ, other) # "Greater"
    IN  SelectSeq(y_prime_prime, First)

\* rightmost_y_star_selector with min_by_key in place of max_by_key
leftmost_y_star_selector(options) ==
    {occ \in SeqToSet(options) :
        \A other \in SeqToSet(options) : occ.right <= other.right}

\* rightmost_y_star_selector: max_by_key(right)
rightmost_y_star_selector(options) ==
    {occ \in SeqToSet(options) :
        \A other \in SeqToSet(options) : other.right <= occ.right}

\* uniform_y_star_selector: choose(rng)
uniform_y_star_selector(options) == SeqToSet(options)

\* Bike::select_y_star: the occupations it can return
select_y_star(cs, crs, bike, self_id) ==
    LET y_prime_prime == y_prime_prime_j_t_plus_1(cs, crs, bike, self_id)
        selected == IF bike.y_star_selection_strategy = "Rightmost"
                    THEN rightmost_y_star_selector(y_prime_prime)
                    ELSE uniform_y_star_selector(y_prime_prime)
    IN  IF selected = {} THEN {bike_occupation(bike)} ELSE selected

\* lateral_update that writes the chosen right into the width field
lateral_update_resizing(cs, crs, bike, self_id) ==
    {[bike EXCEPT !.width = occ.right + 1] :
        occ \in select_y_star(cs, crs, bike, self_id)}

\* Bike::lateral_update: the bikes it can return
lateral_update(cs, crs, bike, self_id) ==
    {bike : ignore \in Sample(bike.p_ignore) \ {FALSE}}
    \cup
    {[bike EXCEPT !.right = occ.right] :
        occ \in IF FALSE \in Sample(bike.p_ignore)
                THEN select_y_star(cs, crs, bike, self_id)
                ELSE {}}

----------------------------------------------------------------------------
(* Bike: forward update *)

Min3(a, b, c) == Min({a, b, c})

\* forward_update without the forward_speed_max term
forward_update_uncapped(cs, bike) ==
    LET next_speed == Min({bike.forward_speed + bike.forward_acceleration,
                           front_gap(cs, bike_occupation(bike))})
    IN  {[bike EXCEPT !.front = (bike.front + next_speed) % L,
                      !.forward_speed = next_speed]}

\* forward_update without the front_gap term
forward_update_blind(cs, bike) ==
    LET next_speed == Min({bike.forward_speed + bike.forward_acceleration,
                           bike.forward_speed_max})
        Decelerated(d) == IF d
                          THEN IF next_speed - 1 > 0 THEN next_speed - 1 ELSE 0
                          ELSE next_speed
    IN  {[bike EXCEPT !.front = (bike.front + Decelerated(d)) % L,
                      !.forward_speed = Decelerated(d)] :
            d \in Sample(bike.p_decel)}

\* forward_update with a random deceleration of two
forward_update_braking(cs, bike) ==
    LET next_speed == Min3(bike.forward_speed + bike.forward_acceleration,
                           bike.forward_speed_max,
                           front_gap(cs, bike_occupation(bike)))
        Decelerated(d) == IF d
                          THEN IF next_speed - 2 > 0 THEN next_speed - 2 ELSE 0
                          ELSE next_speed
    IN  {[bike EXCEPT !.front = (bike.front + Decelerated(d)) % L,
                      !.forward_speed = Decelerated(d)] :
            d \in Sample(bike.p_decel)}

\* forward_update without the acceleration term
forward_update_coasting(cs, bike) ==
    LET next_speed == Min3(bike.forward_speed,
                           bike.forward_speed_max,
                           front_gap(cs, bike_occupation(bike)))
        Decelerated(d) == IF d
                          THEN IF next_speed - 1 > 0 THEN next_speed - 1 ELSE 0
                          ELSE next_speed
    IN  {[bike EXCEPT !.front = (bike.front + Decelerated(d)) % L,
                      !.forward_speed = Decelerated(d)] :
            d \in Sample(bike.p_decel)}

\* forward_update without the random deceleration
forward_update_undamped(cs, bike) ==
    LET next_speed == Min3(bike.forward_speed + bike.forward_acceleration,
                           bike.forward_speed_max,
                           front_gap(cs, bike_occupation(bike)))
    IN  {[bike EXCEPT !.front = (bike.front + next_speed) % L,
                      !.forward_speed = next_speed]}

\* Bike::forward_update: the bikes it can return
forward_update(cs, bike) ==
    LET next_speed == Min3(bike.forward_speed + bike.forward_acceleration,
                           bike.forward_speed_max,
                           front_gap(cs, bike_occupation(bike)))
        Decelerated(d) == IF d
                          THEN IF next_speed - 1 > 0 THEN next_speed - 1 ELSE 0
                          ELSE next_speed
    IN  {[bike EXCEPT !.front = (bike.front + Decelerated(d)) % L,
                      !.forward_speed = Decelerated(d)] :
            d \in Sample(bike.p_decel)}

----------------------------------------------------------------------------
(* Car: update *)

potential_car(car, speed) ==
    [car EXCEPT !.front = car.front + speed, !.speed = speed]

\* the speeds 1..=potential at which take_while stops: the placement hits
\* another vehicle, or one of its cells is off the road (collisions_for
\* unwraps validate_coord of every cell)
StopSpeeds(cs, car, self_id) ==
    {speed \in 1..next_iteration_potential_speed(car) :
        \/ collisions_panic(car_occupation(potential_car(car, speed)))
        \/ is_collision_for(cs, car_occupation(potential_car(car, speed)),
                            VehicleCar(self_id))}

\* fastest_safe_speed by a filter in place of take_while: the largest speed
\* that is not a stop
fastest_safe_speed_filtered(cs, car, self_id) ==
    LET potential == next_iteration_potential_speed(car)
        stops == StopSpeeds(cs, car, self_id)
    IN  Max({0} \cup ((1..potential) \ stops))

\* fastest_safe_speed that skips the placement of speed 1
fastest_safe_speed_from_two(cs, car, self_id) ==
    LET potential == next_iteration_potential_speed(car)
        stops == StopSpeeds(cs, car, self_id) \ {1}
    IN  IF stops # {} THEN Min(stops) - 1
        ELSE IF potential < 1 THEN 0 ELSE potential

\* Car::fastest_safe_speed: last speed taken, 0 when none is
fastest_safe_speed(cs, car, self_id) ==
    LET potential == next_iteration_potential_speed(car)
        stops == StopSpeeds(cs, car, self_id)
    IN  IF stops # {} THEN Min(stops) - 1
        ELSE IF potential < 1 THEN 0 ELSE potential

\* the search panics when the speed it stops at has a cell off the road
fastest_safe_speed_panics(cs, car, self_id) ==
    LET stops == StopSpeeds(cs, car, self_id)
    IN  /\ stops # {}
        /\ collisions_panic(car_occupation(potential_car(car, Min(stops))))

\* Car::update that takes the potential speed without the search for a
\* safe one
car_update_unchecked(cs, car, self_id) ==
    LET next_speed == next_iteration_potential_speed(car)
        Decelerated(d) == IF d
                          THEN IF next_speed - 1 > 0 THEN next_speed - 1 ELSE 0
                          ELSE next_speed
    IN  {[car EXCEPT !.front = (car.front + Decelerated(d)) % L,
                     !.speed = Decelerated(d)] :
            d \in Sample(car.p_decel)}

\* Car::update: the cars it can return
car_update(cs, car, self_id) ==
    LET next_speed == fastest_safe_speed(cs, car, self_id)
        Decelerated(d) == IF d
                          THEN IF next_speed - 1 > 0 THEN next_speed - 1 ELSE 0
                          ELSE next_speed
    IN  {[car EXCEPT !.front = (car.front + Decelerated(d)) % L,
                     !.speed = Decelerated(d)] :
            d \in Sample(car.p_decel)}

\* debug_assert_ne!(self.next_iteration_potential_speed(), 0)
car_update_assertion_fails(car) == next_iteration_potential_speed(car) = 0

----------------------------------------------------------------------------
(* Road: the three phases of update() *)

\* wipe_bikes_from_cells / wipe_cars_from_cells: remove the cells of every
\* vehicle; `asserted` is false when a removed cell did not hold a vehicle of
\* the kind (also when an earlier cell of the occupier had removed it)
RECURSIVE wipe_from_cells(_, _, _, _)
wipe_from_cells(cs, items, kind, i) ==
    IF i > Len(items)
    THEN [cells |-> cs, asserted |-> TRUE]
    ELSE LET occ == items[i].occupier
             rest == wipe_from_cells(remove_cells(cs, occ), items, kind, i + 1)
         IN  [cells |-> rest.cells,
              asserted |->
                  /\ rest.asserted
                  /\ occ.length <= L
                  /\ \A lat \in width_iterator(occ), long \in length_iterator(occ) :
                        get(cs, lat, long)[1] = kind]

wipe_bikes_from_cells(cs, bs) ==
    wipe_from_cells(cs, iter_bike_positions(bs), "Bike", 1)

wipe_cars_from_cells(cs, crs) ==
    wipe_from_cells(cs, iter_car_positions(crs), "Car", 1)

\* all arrays whose i-th element is one of choices[i]
RECURSIVE ArraysOf(_)
ArraysOf(choices) ==
    IF choices = <<>> THEN {<<>>}
    ELSE {Append(a, c) : a \in ArraysOf(SubSeq(choices, 1, Len(choices) - 1)),
                         c \in choices[Len(choices)]}

\* Road::next_bikes_lateral
next_bikes_lateral(cs, bs, crs) ==
    ArraysOf([i \in 1..Len(bs) |-> lateral_update(cs, crs, bs[i], i)])

\* the acceptance loop without the collision test: every proposal is taken
RECURSIVE lateral_accept_unchecked(_, _, _, _, _)
lateral_accept_unchecked(cs, bs, shuffled, new_bikes, k) ==
    IF k > Len(shuffled)
    THEN [cells |-> cs, bikes |-> bs]
    ELSE LET bike_id == shuffled[k]
             bike_to_occupy == new_bikes[bike_id]
         IN  lateral_accept_unchecked(
                 insert_cells(cs, bike_occupation(bike_to_occupy),
                              VehicleBike(bike_id),
                              area(bike_occupation(bike_to_occupy))),
                 [bs EXCEPT ![bike_id] = bike_to_occupy],
                 shuffled, new_bikes, k + 1)

\* the acceptance loop of bikes_lateral_update over the shuffled proposals
RECURSIVE lateral_accept(_, _, _, _, _)
lateral_accept(cs, bs, shuffled, new_bikes, k) ==
    IF k > Len(shuffled)
    THEN [cells |-> cs, bikes |-> bs]
    ELSE LET bike_id == shuffled[k]
             new_bike == new_bikes[bike_id]
             bike_to_occupy ==
                 IF collisions_for_is_empty(cs, bike_occupation(new_bike))
                 THEN new_bike
                 ELSE bs[bike_id]
         IN  lateral_accept(
                 insert_cells(cs, bike_occupation(bike_to_occupy),
                              VehicleBike(bike_id),
                              area(bike_occupation(bike_to_occupy))),
                 [bs EXCEPT ![bike_id] = bike_to_occupy],
                 shuffled, new_bikes, k + 1)

Shuffles(n) == Permutations(1..n)

Stop(how) ==
    /\ result' = how
    /\ UNCHANGED <<bikes, cars, cells, generics, pc, debug, builder>>

\* Road::bikes_lateral_update
BikesLateralUpdate ==
    /\ pc = "lateral"
    /\ result = "ok"
    /\ IF \E i \in 1..Len(bikes) :
             /\ FALSE \in Sample(bikes[i].p_ignore)
             /\ y_prime_prime_panics(cells, cars, bikes[i], i)
       THEN Stop("panic_expect")
       ELSE LET wiped == wipe_bikes_from_cells(cells, bikes)
            IN  IF debug /\ ~wiped.asserted
                THEN Stop("panic_wipe")
                ELSE \E new_bikes \in next_bikes_lateral(cells, bikes, cars),
                        shuffled \in Shuffles(Len(bikes)) :
                       LET accepted == lateral_accept(wiped.cells, bikes,
                                                      shuffled, new_bikes, 1)
                       IN  /\ bikes' = accepted.bikes
                           /\ cells' = accepted.cells
                           /\ pc' = "forward"
                           /\ UNCHANGED <<cars, generics, result, debug, builder>>

\* next_bikes_forward that reads the gaps after the bikes were wiped
next_bikes_forward_stale(cs, bs) ==
    ArraysOf([i \in 1..Len(bs) |->
                forward_update(wipe_bikes_from_cells(cs, bs).cells, bs[i])])

\* Road::next_bikes_forward
next_bikes_forward(cs, bs) ==
    ArraysOf([i \in 1..Len(bs) |-> forward_update(cs, bs[i])])

\* Road::bikes_forward_update
BikesForwardUpdate ==
    /\ pc = "forward"
    /\ result = "ok"
    /\ LET wiped == wipe_bikes_from_cells(cells, bikes)
       IN  IF debug /\ ~wiped.asserted
           THEN Stop("panic_wipe")
           ELSE \E next_bikes \in next_bikes_forward(cells, bikes) :
                  LET inserted == try_insert_each(wiped.cells,
                                      iter_bike_positions(next_bikes), 1)
                  IN  IF inserted.why = "lat"
                      THEN Stop("panic_lat")
                      ELSE IF inserted.why = "collision"
                      THEN /\ cells' = inserted.cells
                           /\ result' = "err"
                           /\ UNCHANGED <<bikes, cars, generics, pc, debug, builder>>
                      ELSE /\ bikes' = next_bikes
                           /\ cells' = inserted.cells
                           /\ pc' = "cars"
                           /\ UNCHANGED <<cars, generics, result, debug, builder>>

\* Road::next_cars
next_cars(cs, crs) ==
    ArraysOf([i \in 1..Len(crs) |-> car_update(cs, crs[i], i)])

\* Road::cars_update
CarsUpdate ==
    /\ pc = "cars"
    /\ result = "ok"
    /\ IF debug /\ \E i \in 1..Len(cars) : car_update_assertion_fails(cars[i])
       THEN Stop("panic_assert")
       ELSE IF \E i \in 1..Len(cars) : fastest_safe_speed_panics(cells, cars[i], i)
       THEN Stop("panic_lat")
       ELSE LET wiped == wipe_cars_from_cells(cells, cars)
            IN  IF debug /\ ~wiped.asserted
                THEN Stop("panic_wipe")
                ELSE \E new_cars \in next_cars(cells, cars) :
                       LET inserted == try_insert_each(wiped.cells,
                                           iter_car_positions(new_cars), 1)
                       IN  IF inserted.why = "lat"
                           THEN Stop("panic_lat")
                           ELSE IF inserted.why = "collision"
                           THEN /\ cells' = inserted.cells
                                /\ result' = "err"
                                /\ UNCHANGED <<bikes, cars, generics, pc, debug, builder>>
                           ELSE /\ cars' = new_cars
                                /\ cells' = inserted.cells
                                /\ pc' = "lateral"
                                /\ UNCHANGED <<bikes, generics, result, debug, builder>>

----------------------------------------------------------------------------
(* Road: mean speeds *)

RECURSIVE sum(_)
sum(values) ==
    IF values = <<>> THEN 0 ELSE values[1] + sum(SubSeq(values, 2, Len(values)))

\* (sum as f64) / (count as f64): a quotient, or what IEEE 754 gives for a
\* zero divisor (NaN for 0/0, an infinity otherwise); never an Option
f64_div(dividend, divisor) ==
    [kind |-> IF divisor # 0 THEN "finite"
              ELSE IF dividend = 0 THEN "NaN" ELSE "inf",
     num |-> dividend, den |-> divisor]

\* Road::mean_car_speed: the sum of the cars' speeds over C
mean_car_speed(crs) ==
    f64_div(sum([i \in 1..Len(crs) |-> crs[i].speed]), Len(crs))

\* Road::mean_bike_speed: the sum of the bikes' speeds over C, the number
\* of cars
mean_bike_speed(bs, crs) ==
    f64_div(sum([i \in 1..Len(bs) |-> bs[i].forward_speed]), Len(crs))

\* Road::new
RoadNew ==
    /\ pc = "new"
    /\ result = "ok"
    /\ LET built == cells_try_from(bikes, cars)
       IN  IF built.ok
           THEN /\ cells' = built.cells
                /\ pc' = "lateral"
                /\ result' = "ok"
           ELSE /\ cells' = cells
                /\ pc' = "new"
                /\ result' = "err"
    /\ UNCHANGED <<bikes, cars, generics, debug, builder>>

----------------------------------------------------------------------------
(* BikeBuilder, CarBuilder: setters and build; probabilities in hundredths *)

\* anyhow::Result: Ok(value) or Err(_)
Ok(value) == [ok |-> TRUE, value |-> value]
Err == [ok |-> FALSE]

\* no builder chain in progress: the agents are handed to Road::new as built
NoBuilder == [kind |-> "none", state |-> Err, call |-> <<"none", 0>>]

\* Default for BikeBuilder
BikeBuilder_default ==
    [front |-> 2, right |-> 2, length |-> 2, width |-> 2,
     forward_speed_max |-> 6, forward_speed |-> 0,
     forward_acceleration |-> 1, rightward_speed_max |-> 2,
     lateral_ignorance |-> 20, deceleration_prob |-> 20,
     y_star_selection_strategy |-> "UniformRandom"]

\* Default for CarBuilder
CarBuilder_default ==
    [front |-> 5, length |-> CAR_LENGTH, car_width |-> CAR_WIDTH,
     alpha |-> CAR_ALPHA, beta |-> CAR_BETA, speed_max |-> CAR_SPEED_MAX,
     speed |-> 0, slow_acceleration |-> 2,
     fast_acceleration |-> CAR_FAST_ACCELERATION,
     max_slow_speed |-> CAR_MAX_SLOW_SPEED,
     deceleration_prob |-> CAR_DECELERATION_PROB]

\* BikeBuilder::with_forward_speed
with_forward_speed(self, forward_speed) ==
    IF forward_speed < 0
    THEN Err
    ELSE Ok([self EXCEPT !.forward_speed = forward_speed])

\* BikeBuilder::with_forward_acceleration
with_forward_acceleration(self, forward_acceleration) ==
    IF forward_acceleration < 1
    THEN Err
    ELSE Ok([self EXCEPT !.forward_acceleration = forward_acceleration])

\* BikeBuilder::with_lateral_ignorance: the match is on
\* lateral_ignorance <= 0.0 && 1.0 <= lateral_ignorance
with_lateral_ignorance(self, lateral_ignorance) ==
    IF lateral_ignorance <= 0 /\ 100 <= lateral_ignorance
    THEN Err
    ELSE Ok([self EXCEPT !.lateral_ignorance = lateral_ignorance])

\* BikeBuilder::with_deceleration_prob
with_deceleration_prob(self, deceleration_prob) ==
    IF deceleration_prob <= 0 /\ 100 <= deceleration_prob
    THEN Err
    ELSE Ok([self EXCEPT !.deceleration_prob = deceleration_prob])

\* CarBuilder::with_front_at
with_front_at(self, front) == [self EXCEPT !.front = front]

\* CarBuilder::with_speed
with_speed(self, speed) == [self EXCEPT !.speed = speed]

\* CarBuilder::with_slow_acceleration
with_slow_acceleration(self, slow_acceleration) ==
    [self EXCEPT !.slow_acceleration = slow_acceleration]

\* CarBuilder::with_deceleration_prob
car_with_deceleration_prob(self, deceleration_prob) ==
    IF deceleration_prob <= 0 /\ 100 <= deceleration_prob
    THEN Err
    ELSE Ok([self EXCEPT !.deceleration_prob = deceleration_prob])

\* rand::distributions::Bernoulli::new: InvalidProbability outside [0, 1]
Bernoulli_new(p) == IF 0 <= p /\ p <= 100 THEN Ok(p) ELSE Err

\* TryInto<Bike> for &BikeBuilder
bike_build(self) ==
    IF self.forward_speed_max < self.forward_speed
    THEN Err
    ELSE IF self.length < 0 \/ self.width < 0
    THEN Err
    ELSE IF ~Bernoulli_new(self.lateral_ignorance).ok
    THEN Err
    ELSE IF ~Bernoulli_new(self.deceleration_prob).ok
    THEN Err
    ELSE Ok([front |-> self.front, right |-> self.right,
             width |-> self.width, length |-> self.length,
             forward_speed_max |-> self.forward_speed_max,
             forward_speed |-> self.forward_speed,
             forward_acceleration |-> self.forward_acceleration,
             rightward_speed_max |-> self.rightward_speed_max,
             p_ignore |-> Bernoulli_new(self.lateral_ignorance).value,
             p_decel |-> Bernoulli_new(self.deceleration_prob).value,
             y_star_selection_strategy |->
                 self.y_star_selection_strategy])

\* TryFrom<&CarBuilder> for Car: const_width = car_width + beta
car_build(self) ==
    IF self.speed_max < self.speed
    THEN Err
    ELSE IF ~Bernoulli_new(self.deceleration_prob).ok
    THEN Err
    ELSE Ok([front |-> self.front, length |-> self.length,
             const_width |-> self.car_width + self.beta,
             speed |-> self.speed,
             fast_acceleration |-> self.fast_acceleration,
             slow_acceleration |-> self.slow_acceleration,
             max_slow_speed |-> self.max_slow_speed,
             speed_max |-> self.speed_max, alpha |-> self.alpha,
             p_decel |-> Bernoulli_new(self.deceleration_prob).value])

----------------------------------------------------------------------------
(* Inputs of Road::new: agents as the public builders can build them *)

Bike(front, right, profile) ==
    [front |-> front, right |-> right,
     width |-> profile.width, length |-> profile.length,
     forward_speed_max |-> profile.forward_speed_max,
     forward_speed |-> 0,
     forward_acceleration |-> 1,
     rightward_speed_max |-> profile.rightward_speed_max,
     p_ignore |-> profile.p_ignore, p_decel |-> profile.p_decel,
     y_star_selection_strategy |-> profile.y_star_selection_strategy]

\* TryFrom<&CarBuilder> for Car: const_width = car_width + beta
Car(front, slow_acceleration) ==
    [front |-> front, length |-> CAR_LENGTH,
     const_width |-> CAR_WIDTH + CAR_BETA, speed |-> 0,
     fast_acceleration |-> CAR_FAST_ACCELERATION,
     slow_acceleration |-> slow_acceleration,
     max_slow_speed |-> CAR_MAX_SLOW_SPEED, speed_max |-> CAR_SPEED_MAX,
     alpha |-> CAR_ALPHA, p_decel |-> CAR_DECELERATION_PROB]

Profile(width, length, speed_max, rightward, strategy) ==
    [width |-> width, length |-> length, forward_speed_max |-> speed_max,
     rightward_speed_max |-> rightward, p_ignore |-> 50, p_decel |-> 50,
     y_star_selection_strategy |-> strategy]

\* a wide and a narrow bike that pick their lat at random, a wide bike that
\* keeps right, and a bike one cell longer than the ring
WideBike == Profile(2, 2, 1, 1, "UniformRandom")
NarrowBike == Profile(1, 2, 2, 2, "UniformRandom")
KeepRightBike == Profile(2, 2, 1, 1, "Rightmost")
LongBike(ring) == Profile(1, ring + 1, 1, 1, "Rightmost")

BikeFronts == {0, 3}
BikeRights == {0, 1, 4, total_width - 1, total_width}
CarFronts == {4, 10}
CarSlowAccelerations == {2}

SeqsUpTo(S, n) == UNION {[1..k -> S] : k \in 0..n}

InitRoad(ring, blw, mlw, profiles, max_bikes, max_cars) ==
    /\ L = ring
    /\ BLW = blw
    /\ MLW = mlw
    /\ \E profile \in profiles :
          bikes \in SeqsUpTo({Bike(f, r, profile) :
                                 f \in BikeFronts, r \in BikeRights}, max_bikes)
    /\ \E a \in CarSlowAccelerations :
          cars \in SeqsUpTo({Car(f, a) : f \in CarFronts}, max_cars)
    /\ cells = EmptyCells
    /\ pc = "new"
    /\ result = "ok"
    /\ debug = TRUE
    /\ builder = NoBuilder

\* the same with the two probabilities set (with_lateral_ignorance,
\* with_deceleration_prob), in hundredths
ProfileWith(width, length, speed_max, rightward, strategy, p_ignore, p_decel) ==
    [width |-> width, length |-> length, forward_speed_max |-> speed_max,
     rightward_speed_max |-> rightward, p_ignore |-> p_ignore,
     p_decel |-> p_decel, y_star_selection_strategy |-> strategy]

\* a bike that always deliberates, keeps right and never decelerates at
\* random; a bike that never deliberates; a one-cell bike that never
\* deliberates and always decelerates
SteadyBike == ProfileWith(2, 2, 1, 2, "Rightmost", 0, 0)
StubbornBike == ProfileWith(2, 2, 1, 1, "UniformRandom", 100, 50)
ShortBike == ProfileWith(1, 1, 1, 2, "Rightmost", 100, 100)

\* a one-cell bike that always deliberates, picks any of its best places
\* and never advances
RestlessBike == ProfileWith(1, 1, 1, 2, "UniformRandom", 0, 100)

\* the default dimensions, forward_speed_max and rightward_speed_max of
\* BikeBuilder with lateral_ignorance 0, deceleration_prob 0 and Rightmost
EagerBike == ProfileWith(2, 2, 6, 2, "Rightmost", 0, 0)

\* a one-cell bike that never deliberates and never decelerates at random
ForwardBike == ProfileWith(1, 1, 1, 1, "Rightmost", 100, 0)

\* CarBuilder with_deceleration_prob (in-crate) before build
CarWith(front, slow_acceleration, p_decel) ==
    [Car(front, slow_acceleration) EXCEPT !.p_decel = p_decel]

\* cars of the default slow acceleration that always decelerate at random
SlowCars == {CarWith(f, 2, 100) : f \in CarFronts}

\* cars that always or never decelerate at random, with a slow acceleration
\* below and above the default speed_max
SureCars ==
    {CarWith(f, a, p) : f \in CarFronts, a \in {2, CAR_SPEED_MAX + 1},
                        p \in {0, 100}}

InitAgents(ring, blw, mlw, profiles, car_choices, max_bikes, max_cars) ==
    /\ L = ring
    /\ BLW = blw
    /\ MLW = mlw
    /\ \E profile \in profiles :
          bikes \in SeqsUpTo({Bike(f, r, profile) :
                                 f \in BikeFronts, r \in BikeRights}, max_bikes)
    /\ cars \in SeqsUpTo(car_choices, max_cars)
    /\ cells = EmptyCells
    /\ pc = "new"
    /\ result = "ok"
    /\ debug = TRUE
    /\ builder = NoBuilder

\* cars whose slow acceleration is 0 (with_slow_acceleration takes any isize)
IdleCars ==
    {car_build(with_slow_acceleration(with_front_at(CarBuilder_default, f),
                                      0)).value : f \in CarFronts}

\* a road of at most one car, in a build with or without debug assertions
InitEitherBuild(ring, blw, mlw, car_choices) ==
    /\ L = ring
    /\ BLW = blw
    /\ MLW = mlw
    /\ bikes = <<>>
    /\ cars \in SeqsUpTo(car_choices, 1)
    /\ cells = EmptyCells
    /\ pc = "new"
    /\ result = "ok"
    /\ debug \in BOOLEAN
    /\ builder = NoBuilder

Init ==
    \/ InitRoad(L_SHORT, TEST_BLW, TEST_MLW, {WideBike}, 2, 0)
    \/ InitRoad(L_LONG, TEST_BLW, TEST_MLW, {NarrowBike}, 1, 1)
    \/ InitRoad(L_LONG, TEST_BLW, TEST_MLW, {NarrowBike}, 0, 2)
    \/ InitRoad(L_LONG, BL_WIDTH, ML_WIDTH, {NarrowBike}, 0, 1)
    \/ InitRoad(L_SHORT, TEST_BLW, TEST_MLW,
                {KeepRightBike, LongBike(L_SHORT)}, 1, 0)
    \/ InitRoad(L_SHORT, TEST_BLW, TEST_MLW,
                {SteadyBike, ShortBike, EagerBike}, 1, 0)
    \/ InitRoad(L_SHORT, TEST_BLW, TEST_MLW, {StubbornBike}, 2, 0)
    \/ InitRoad(L_LONG, TEST_BLW, TEST_MLW, {ShortBike}, 1, 1)
    \/ InitAgents(L_LONG, BL_WIDTH, ML_WIDTH, {NarrowBike}, SureCars, 0, 1)
    \/ InitAgents(L_LONG, TEST_BLW, TEST_MLW, {NarrowBike}, SureCars, 0, 1)
    \/ InitRoad(L_LONG, TEST_BLW, TEST_MLW, {ForwardBike}, 1, 2)
    \/ InitRoad(L_LONG, TEST_BLW, TEST_MLW, {ShortBike}, 2, 1)
    \/ InitRoad(L_LOOSE, TEST_BLW, TEST_MLW, {ShortBike}, 1, 2)
    \/ InitAgents(L_LONG, BL_WIDTH, ML_WIDTH, {ShortBike}, SureCars, 1, 1)
    \/ InitAgents(L_LONG, TEST_BLW, TEST_MLW, {RestlessBike}, SlowCars, 2, 1)
    \/ InitEitherBuild(L_LONG, BL_WIDTH, ML_WIDTH, IdleCars)

Next ==
    \/ RoadNew
    \/ BikesLateralUpdate
    \/ BikesForwardUpdate
    \/ CarsUpdate

Spec == Init /\ [][Next]_vars

\* the roads of one bike that never decelerates at random: main calls
\* update() once per iteration, so a road that can take a step does
LoneBikeInit ==
    InitRoad(L_SHORT, TEST_BLW, TEST_MLW,
             {SteadyBike, EagerBike, ForwardBike}, 1, 0)

\* one more phase of the loop of main: while nothing has failed the next
\* phase is entered, or the run ends in a failure. Every step of Next is
\* such a step, and one is possible exactly when result = "ok"
Iterate ==
    /\ result = "ok"
    /\ pc' \in {"new", "lateral", "forward", "cars"}
    /\ result' \in {"ok", "err", "panic_lat", "panic_wipe", "panic_assert",
                    "panic_expect"}

LoneBikeSpec ==
    LoneBikeInit /\ [][Next]_vars /\ WF_<<pc, result>>(Iterate)

----------------------------------------------------------------------------
(* One agent from its builder: the setter chain, build, Road::new, update *)

\* probabilities (hundredths), speeds and accelerations handed to the setters
ProbabilityInputs == {-50, 0, 100, 150}
BikeSpeedInputs == {0, 7}
CarSpeedInputs == {0, CAR_SPEED_MAX + 1}
AccelerationInputs == {0, 1}

\* BikeBuilder::default() for a Road::<1, 0, ..>, CarBuilder::default() for
\* a Road::<0, 1, ..>
BuildInit ==
    /\ \/ /\ builder = [kind |-> "bike", state |-> Ok(BikeBuilder_default),
                        call |-> <<"default", 0>>]
          /\ L = L_SHORT
          /\ BLW = TEST_BLW
          /\ MLW = TEST_MLW
       \/ /\ builder = [kind |-> "car", state |-> Ok(CarBuilder_default),
                        call |-> <<"default", 0>>]
          /\ L = L_LONG
          /\ BLW = BL_WIDTH
          /\ MLW = ML_WIDTH
    /\ bikes = <<>>
    /\ cars = <<>>
    /\ cells = EmptyCells
    /\ pc = "build"
    /\ result = "ok"
    /\ debug = TRUE

\* a setter called on the builder the chain has reached (a `?` ends the
\* chain at the first Err)
Chain(kind, name, arg, outcome) ==
    /\ pc = "build"
    /\ builder.kind = kind
    /\ builder.state.ok
    /\ builder' = [builder EXCEPT !.state = outcome, !.call = <<name, arg>>]
    /\ UNCHANGED <<bikes, cars, cells, generics, pc, result, debug>>

WithLateralIgnorance ==
    \E p \in ProbabilityInputs :
       Chain("bike", "with_lateral_ignorance", p,
             with_lateral_ignorance(builder.state.value, p))

WithDecelerationProb ==
    \E p \in ProbabilityInputs :
       Chain("bike", "with_deceleration_prob", p,
             with_deceleration_prob(builder.state.value, p))

WithForwardSpeed ==
    \E speed \in BikeSpeedInputs :
       Chain("bike", "with_forward_speed", speed,
             with_forward_speed(builder.state.value, speed))

WithForwardAcceleration ==
    \E a \in AccelerationInputs :
       Chain("bike", "with_forward_acceleration", a,
             with_forward_acceleration(builder.state.value, a))

CarWithDecelerationProb ==
    \E p \in ProbabilityInputs :
       Chain("car", "with_deceleration_prob", p,
             car_with_deceleration_prob(builder.state.value, p))

CarWithSpeed ==
    \E speed \in CarSpeedInputs :
       Chain("car", "with_speed", speed,
             Ok(with_speed(builder.state.value, speed)))

\* build() at the end of the chain; the agent goes to Road::new
Build ==
    /\ pc = "build"
    /\ builder.state.ok
    /\ LET agent == IF builder.kind = "bike"
                    THEN bike_build(builder.state.value)
                    ELSE car_build(builder.state.value)
       IN  /\ builder' = [builder EXCEPT !.call = <<"build", 0>>]
           /\ pc' = "new"
           /\ IF agent.ok
              THEN /\ result' = "ok"
                   /\ bikes' = IF builder.kind = "bike"
                               THEN <<agent.value>> ELSE <<>>
                   /\ cars' = IF builder.kind = "car"
                              THEN <<agent.value>> ELSE <<>>
              ELSE /\ result' = "err"
                   /\ UNCHANGED <<bikes, cars>>
    /\ UNCHANGED <<cells, generics, debug>>

BuildNext ==
    \/ WithLateralIgnorance
    \/ WithDecelerationProb
    \/ WithForwardSpeed
    \/ WithForwardAcceleration
    \/ CarWithDecelerationProb
    \/ CarWithSpeed
    \/ Build
    \/ RoadNew
    \/ BikesLateralUpdate
    \/ BikesForwardUpdate
    \/ CarsUpdate

BuildSpec == BuildInit /\ [][BuildNext]_vars

----------------------------------------------------------------------------
(* Properties *)

Agents ==
    {VehicleBike(i) : i \in 1..Len(bikes)} \cup {VehicleCar(i) : i \in 1..Len(cars)}

Occupation(v) ==
    IF v[1] = "Bike" THEN bike_occupation(bikes[v[2]])
                     ELSE car_occupation(cars[v[2]])

\* the cells of an agent, long reduced modulo L, from the agent's own fields
AgentCells(v) ==
    {Coord(lat, long % L) : lat \in width_iterator(Occupation(v)),
                            long \in length_iterator(Occupation(v))}

\* the lats under which the index holds a vehicle
LatsOf(vehicle) == {c.lat : c \in {d \in DOMAIN cells : cells[d] = vehicle}}

CarWidth(car) == CeilDiv(car.const_width + car.alpha * car.speed, 100)

\* C1: once Road::new has succeeded, and after every phase of every update()
\* that has not failed, no cell (lat, long mod L) belongs to two distinct
\* agents.
C1_NoSharedCell ==
    (pc # "new" /\ result = "ok") =>
        \A a \in Agents, b \in Agents :
            a # b => AgentCells(a) \cap AgentCells(b) = {}

\* a bike and a car, both moving, at the end of a tick
C1_Witness ==
    /\ pc = "lateral" /\ result = "ok"
    /\ Len(bikes) = 1 /\ Len(cars) = 1
    /\ bikes[1].forward_speed > 0 /\ cars[1].speed > 0

\* C2: after construction and after each phase the key set of the index is
\* the union of the agents' cells, every key maps to the agent that covers
\* it, and the debug assertions of the wipes never fail.
C2_IndexIsAgentCells ==
    /\ result # "panic_wipe"
    /\ (pc # "new" /\ result = "ok") =>
          /\ KeySet(cells) = UNION {AgentCells(v) : v \in Agents}
          /\ \A v \in Agents : \A c \in AgentCells(v) : cells[c] = v

\* the index after a lateral phase that followed a tick in which both bikes
\* advanced
C2_Witness ==
    /\ pc = "forward" /\ result = "ok"
    /\ Len(bikes) = 2
    /\ bikes[1].forward_speed > 0 /\ bikes[2].forward_speed > 0
    /\ bikes[1].right # bikes[2].right

\* C3: on a constructed road every cell of every bike has its lat in
\* [0, W), after the lateral phase, after the forward phase and after any
\* number of updates.
C3_BikesOnRoad ==
    pc # "new" =>
        \A i \in 1..Len(bikes) :
            \A lat \in width_iterator(bike_occupation(bikes[i])) :
                0 <= lat /\ lat < total_width

\* a moving bike that has reached the rightmost lat of the road
C3_Witness ==
    /\ pc = "forward" /\ result = "ok"
    /\ \E i \in 1..Len(bikes) :
          /\ bikes[i].right = total_width - 1
          /\ bikes[i].forward_speed > 0
          /\ bikes[i].rightward_speed_max > 0

\* C4: every car's cells have lat in [0, W) and update() never aborts on an
\* out-of-range lat (the safe-speed search never tests a width above W).
C4_CarsOnRoadNoAbort ==
    /\ pc # "new" =>
          \A i \in 1..Len(cars) : CarWidth(cars[i]) <= total_width
    /\ result # "panic_lat"

\* C5 as stated: every cell of every car has lat < MLW.
C5_CarsInMotorLane ==
    (pc # "new" /\ result = "ok") =>
        \A i \in 1..Len(cars) : \A lat \in LatsOf(VehicleCar(i)) : lat < MLW

\* C5, amended: the cells of a car are the lats 0 .. width(speed) - 1, its
\* left edge at lat 0; the width is not bounded by MLW, so the car may cover
\* bike-lane lats.
C5_CarsAnchoredLeft ==
    (pc # "new" /\ result = "ok") =>
        \A i \in 1..Len(cars) :
            LatsOf(VehicleCar(i)) = 0..(CarWidth(cars[i]) - 1)

\* on the road of the default build a car fast enough to be wider than the
\* motor lane
C5_Witness ==
    /\ pc = "lateral" /\ result = "ok"
    /\ MLW = ML_WIDTH
    /\ \E i \in 1..Len(cars) : MLW \in LatsOf(VehicleCar(i))

\* C6: every bike has 0 <= forward_speed <= forward_speed_max and every car
\* has 0 <= speed <= speed_max, in every state.
C6_SpeedBounds ==
    /\ \A i \in 1..Len(bikes) :
          0 <= bikes[i].forward_speed
          /\ bikes[i].forward_speed <= bikes[i].forward_speed_max
    /\ \A i \in 1..Len(cars) :
          0 <= cars[i].speed /\ cars[i].speed <= cars[i].speed_max

\* a car that has accelerated up to speed_max
C6_Witness ==
    /\ result = "ok"
    /\ \E i \in 1..Len(cars) : cars[i].speed = cars[i].speed_max

\* C7: no step changes the number of agents or any field of an agent other
\* than front, right and forward_speed of a bike and front and speed of a
\* car.
C7_DimensionsKept ==
    [][/\ Len(bikes') = Len(bikes)
       /\ Len(cars') = Len(cars)
       /\ \A i \in 1..Len(bikes) :
             bikes'[i] = [bikes[i] EXCEPT !.front = bikes'[i].front,
                                          !.right = bikes'[i].right,
                                          !.forward_speed = bikes'[i].forward_speed]
       /\ \A i \in 1..Len(cars) :
             cars'[i] = [cars[i] EXCEPT !.front = cars'[i].front,
                                        !.speed = cars'[i].speed]]_vars

\* a car whose effective width has grown and a bike that has moved
C7_Witness ==
    /\ pc = "lateral" /\ result = "ok"
    /\ Len(bikes) = 1 /\ Len(cars) = 1
    /\ CarWidth(cars[1]) > CarWidth([cars[1] EXCEPT !.speed = 0])
    /\ bikes[1].forward_speed > 0

OffGrid ==
    \E v \in Agents : \E lat \in width_iterator(Occupation(v)) :
        lat < 0 \/ total_width <= lat

DistinctAgentsCoincide ==
    \E a \in Agents, b \in Agents :
        a # b /\ AgentCells(a) \cap AgentCells(b) # {}

\* two cells of one agent have the same long modulo L
AgentOverlapsItself == \E v \in Agents : Occupation(v).length > L

NewStep(rejects) ==
    (pc = "new" /\ result = "ok") =>
        /\ (result' = "err") <=> rejects
        /\ result' = "err" => pc' = "new" /\ cells' = cells
        /\ result' # "err" => result' = "ok" /\ pc' = "lateral"

\* C8 as stated: Road::new returns an error exactly when two distinct agents
\* share a cell or a cell is off the grid.
C8_NewRejectsExactly ==
    [][NewStep(DistinctAgentsCoincide \/ OffGrid)]_vars

\* C8, amended: Road::new returns an error, and no Road, exactly when two
\* cells coincide modulo L, of two agents or of one agent longer than the
\* ring, or a cell is off the grid.
C8_NewRejectsOverlap ==
    [][NewStep(DistinctAgentsCoincide \/ AgentOverlapsItself \/ OffGrid)]_vars

\* a single bike on the grid, longer than the ring, rejected
C8_Witness ==
    /\ pc = "new" /\ result = "err"
    /\ Len(bikes) = 1 /\ Len(cars) = 0
    /\ bikes[1].length > L
    /\ ~OffGrid

\* C9: the forward phase never finds a cell taken when it inserts the
\* advanced bikes, and never aborts on their cells.
C9_ForwardNeverFails ==
    pc = "forward" => result = "ok"

\* two bikes in the same lats that advanced in the same tick, one of them
\* across the wrap of the ring
C9_Witness ==
    /\ pc = "cars" /\ result = "ok"
    /\ Len(bikes) = 2
    /\ bikes[1].right = bikes[2].right
    /\ bikes[1].forward_speed > 0 /\ bikes[2].forward_speed > 0
    /\ \E i \in 1..2 : bikes[i].front = 0

\* C10: the phases follow each other in the order lateral, forward, cars,
\* lateral, ...; the advance of every bike is bounded by its front gap in
\* the index the lateral phase left, and the speed of every car by its safe
\* speed in the index the forward phase left.
C10_PhaseOrder ==
    [][/\ pc' # pc =>
             \/ pc = "new" /\ pc' = "lateral"
             \/ pc = "lateral" /\ pc' = "forward"
             \/ pc = "forward" /\ pc' = "cars"
             \/ pc = "cars" /\ pc' = "lateral"
       /\ (pc = "lateral" /\ pc' = "forward") => cars' = cars
       /\ (pc = "forward" /\ pc' = "cars") =>
             /\ cars' = cars
             /\ \A i \in 1..Len(bikes) :
                   /\ bikes'[i].forward_speed
                        <= front_gap(cells, bike_occupation(bikes[i]))
                   /\ bikes'[i].front
                        = (bikes[i].front + bikes'[i].forward_speed) % L
                   /\ bikes'[i].right = bikes[i].right
       /\ (pc = "cars" /\ pc' = "lateral") =>
             /\ bikes' = bikes
             /\ \A i \in 1..Len(cars) :
                   /\ cars'[i].speed <= fastest_safe_speed(cells, cars[i], i)
                   /\ cars'[i].front = (cars[i].front + cars'[i].speed) % L]_vars

\* at the end of a tick a car that has driven up to the back of a bike
C10_Witness ==
    /\ pc = "lateral" /\ result = "ok"
    /\ \E i \in 1..Len(cars) :
          /\ cars[i].speed > 0
          /\ \E lat \in 0..(CarWidth(cars[i]) - 1) :
                get(cells, lat, cars[i].front + 1)[1] = "Bike"

----------------------------------------------------------------------------
(* The forward rule *)

ForwardStep == pc = "forward" /\ pc' = "cars"

\* min(s + a, s_max, front_gap(R)) of bike i on the index as it stands
BaseSpeed(i) ==
    Min({bikes[i].forward_speed + bikes[i].forward_acceleration,
         bikes[i].forward_speed_max,
         front_gap(cells, bike_occupation(bikes[i]))})

Slowed(s) == Max({s - 1, 0})

\* C11: in the forward phase every bike's new speed is
\* min(s + a, s_max, front_gap(R)) measured on the post-lateral index, or
\* that value less one (not below 0) when the deceleration draw succeeds
\* (never when p_decel = 0, always when p_decel = 1); its front becomes
\* (front + new speed) mod L; right, width and length are unchanged.
C11_ForwardRule ==
    [][ForwardStep =>
          \A i \in 1..Len(bikes) :
             /\ bikes'[i].forward_speed \in
                   {BaseSpeed(i), Slowed(BaseSpeed(i))}
             /\ bikes[i].p_decel = 0 =>
                   bikes'[i].forward_speed = BaseSpeed(i)
             /\ bikes[i].p_decel = 100 =>
                   bikes'[i].forward_speed = Slowed(BaseSpeed(i))
             /\ bikes'[i].front =
                   (bikes[i].front + bikes'[i].forward_speed) % L
             /\ bikes'[i].right = bikes[i].right
             /\ bikes'[i].width = bikes[i].width
             /\ bikes'[i].length = bikes[i].length]_vars

\* a bike that has just moved at speed 2 with a car on the road
C11_Witness ==
    /\ pc = "cars"
    /\ result = "ok"
    /\ \E i \in 1..Len(bikes) :
          /\ bikes[i].forward_speed = 2
          /\ Len(cars) = 1

----------------------------------------------------------------------------
(* A lone car *)

\* cars_update is about to move a car at rest that has the road to itself
LoneCarAtRest ==
    /\ pc = "cars"
    /\ result = "ok"
    /\ Len(bikes) = 0
    /\ Len(cars) = 1
    /\ cars[1].speed = 0

CarsStep == pc = "cars" /\ pc' = "lateral"

\* the lone car has advanced by `distance`, which is its new speed
LoneCarAdvancedBy(distance) ==
    /\ CarsStep
    /\ cars'[1].speed = distance
    /\ cars'[1].front = (cars[1].front + distance) % L

WidthAtSpeed(car, speed) == CeilDiv(car.const_width + car.alpha * speed, 100)

----------------------------------------------------------------------------
(* The safe-speed search of a car *)

\* the cells of car i placed `speed` cells ahead with the width of that speed
PlacementCells(i, speed) ==
    {[lat |-> lat, long |-> (cars[i].front + speed - d) % L] :
        lat \in 0..(WidthAtSpeed(cars[i], speed) - 1),
        d \in 0..(cars[i].length - 1)}

\* no cell of the placement belongs to a vehicle other than car i
SafeAt(i, speed) ==
    \A c \in PlacementCells(i, speed) \cap DOMAIN cells :
        cells[c] = VehicleCar(i)

SearchedSpeeds(i) == 0..next_iteration_potential_speed(cars[i])

\* the largest speed whose own placement is safe
LargestSafeSpeed(i) ==
    Max({k \in SearchedSpeeds(i) : k = 0 \/ SafeAt(i, k)})

\* the largest speed reached through safe placements only
LargestSafeRun(i) ==
    Max({k \in SearchedSpeeds(i) : \A j \in 1..k : SafeAt(i, j)})

SearchRuns(i) ==
    /\ pc = "cars"
    /\ result = "ok"
    /\ i \in 1..Len(cars)
    /\ ~fastest_safe_speed_panics(cells, cars[i], i)

\* C13 as stated: a car's fastest safe speed is the largest k in 0 .. s',
\* s' = min(s + a(s), s_max), whose placement at front + k with the width of
\* speed k collides with no other vehicle (its own cells ignored).
C13_LargestSafeSpeed ==
    \A i \in 1..Len(cars) :
        SearchRuns(i) =>
            fastest_safe_speed(cells, cars[i], i) = LargestSafeSpeed(i)

\* C13 amended: the search tries k = 1, 2, .. s' in order and stops at the
\* first placement that collides: the result is the largest k in 0 .. s' such
\* that every placement 1 .. k is free of other vehicles, each with the width
\* of its own speed.
C13_LargestSafeRun ==
    \A i \in 1..Len(cars) :
        SearchRuns(i) =>
            fastest_safe_speed(cells, cars[i], i) = LargestSafeRun(i)

\* a car whose search stops below a speed whose own placement is free: the
\* placement widens onto a bike beside the car's front and, faster still,
\* clears it
C13_Witness ==
    \E i \in 1..Len(cars) :
        /\ SearchRuns(i)
        /\ LargestSafeRun(i) < LargestSafeSpeed(i)

----------------------------------------------------------------------------
(* Blocking *)

\* the coordinates of the road that no car holds
CarFreeCoords ==
    {c \in [lat : 0..(total_width - 1), long : 0..(L - 1)] :
        get(cells, c.lat, c.long)[1] # "Car"}

\* cells from the front of the car forward to c
ForwardDistance(car, c) == (c.long - car.front) % L

\* C14: is_blocking(c) is true exactly when first_car_back(c) finds a car
\* and that car's potential next speed is strictly greater than the
\* longitudinal distance from the car's front forward to c.
C14_BlockingIffCarReaches ==
    (pc # "new" /\ result = "ok") =>
        \A c \in CarFreeCoords :
            is_blocking(cells, cars, c) <=>
                LET car_id == cells_first_car_back(cells, c)
                IN  /\ car_id # 0
                    /\ next_iteration_potential_speed(cars[car_id])
                         > ForwardDistance(cars[car_id], c)

----------------------------------------------------------------------------
(* The proposal of a deliberating bike *)

\* bike i can deliberate on the index as it stands, and has candidates
Deliberates(i) ==
    /\ pc = "lateral"
    /\ result = "ok"
    /\ i \in 1..Len(bikes)
    /\ bikes[i].p_ignore < 100
    /\ ~y_prime_prime_panics(cells, cars, bikes[i], i)
    /\ y_prime_prime_j_t_plus_1(cells, cars, bikes[i], i) # <<>>

\* C15: when a bike deliberates and Y'' is non-empty, its proposal is maximal
\* under the priority preorder: no candidate of Y'' has a strictly larger
\* road-level front gap than the proposal, on the pre-phase index, under
\* either strategy.
C15_ProposalHasLargestGap ==
    \A i \in 1..Len(bikes) :
        Deliberates(i) =>
            \A proposal \in select_y_star(cells, cars, bikes[i], i) :
                \A candidate \in
                      SeqToSet(y_prime_prime_j_t_plus_1(cells, cars,
                                                        bikes[i], i)) :
                    front_gap(cells, candidate) <= front_gap(cells, proposal)

----------------------------------------------------------------------------
(* The lateral phase *)

LateralStep == pc = "lateral" /\ pc' = "forward"

\* the lateral phase is about to run for one bike that has the road to
\* itself, always deliberates and keeps right
LoneBikeKeepsRight ==
    /\ pc = "lateral"
    /\ result = "ok"
    /\ Len(bikes) = 1
    /\ Len(cars) = 0
    /\ bikes[1].p_ignore = 0
    /\ bikes[1].y_star_selection_strategy = "Rightmost"

\* C16: a single bike with no other agent on the road, p_ignore = 0 and the
\* Rightmost strategy ends the lateral phase with
\* right = min(right + r_max, W - 1).
C16_LoneBikeMovesRight ==
    [][LoneBikeKeepsRight =>
          /\ LateralStep
          /\ bikes'[1].right =
                Min({bikes[1].right + bikes[1].rightward_speed_max,
                     total_width - 1})]_vars

\* the lone bike built at right 1 with r_max 2 has ended a lateral phase at
\* right 3
C16_Witness ==
    /\ pc = "forward"
    /\ result = "ok"
    /\ Len(bikes) = 1
    /\ Len(cars) = 0
    /\ bikes[1].p_ignore = 0
    /\ bikes[1].y_star_selection_strategy = "Rightmost"
    /\ bikes[1].rightward_speed_max = 2
    /\ bikes[1].right = 3

\* the cells (lat, long mod L) of a bike
BikeCells(bike) ==
    {[lat |-> lat, long |-> (bike.front - d) % L] :
        lat \in (bike.right - bike.width + 1)..bike.right,
        d \in 0..(bike.length - 1)}

\* the cells the cars hold
CarCells == {c \in DOMAIN cells : cells[c][1] = "Car"}

\* the bikes after the first k turns of `order`: the bike of turn k is at its
\* proposal when no cell of the proposal is held by a car or by a bike of an
\* earlier turn, and at its pre-phase place otherwise
RECURSIVE AfterTurns(_, _, _)
AfterTurns(order, proposals, k) ==
    IF k = 0
    THEN bikes
    ELSE LET before == AfterTurns(order, proposals, k - 1)
             id == order[k]
             taken == CarCells \cup
                      UNION {BikeCells(before[order[j]]) : j \in 1..(k - 1)}
         IN  [before EXCEPT ![id] =
                 IF BikeCells(proposals[id]) \cap taken = {}
                 THEN proposals[id]
                 ELSE bikes[id]]

\* C17: in the lateral phase all bikes are first removed from the index and
\* then processed in a shuffled order: bike i ends at its own proposal iff
\* none of the proposal's cells is in the index at its turn, and otherwise
\* at its pre-phase occupation; the result is stored at index i and differs
\* from the pre-phase bike i at most in right, by at most r_max; front,
\* speed, width, length and all cars are unchanged.
C17_LateralAcceptance ==
    [][(pc = "lateral" /\ LateralStep) =>
          /\ \E proposals \in next_bikes_lateral(cells, bikes, cars),
                order \in Permutations(1..Len(bikes)) :
                bikes' = AfterTurns(order, proposals, Len(bikes))
          /\ Len(bikes') = Len(bikes)
          /\ \A i \in 1..Len(bikes) :
                /\ bikes'[i] = [bikes[i] EXCEPT !.right = bikes'[i].right]
                /\ bikes'[i].right - bikes[i].right
                      \in (-bikes[i].rightward_speed_max)
                            ..bikes[i].rightward_speed_max
          /\ cars' = cars]_vars

\* two bikes that have moved before are about to enter a lateral phase in
\* which their proposals can share a cell, so that the later one is refused
C17_Witness ==
    /\ pc = "lateral"
    /\ result = "ok"
    /\ Len(bikes) = 2
    /\ \A i \in 1..2 : bikes[i].forward_speed > 0
    /\ \E proposals \in next_bikes_lateral(cells, bikes, cars) :
          BikeCells(proposals[1]) \cap BikeCells(proposals[2]) # {}

\* C18: if every bike has p_ignore = 1, no bike's right changes in any
\* step, over any number of updates.
C18_IgnoringBikesKeepRight ==
    [][(\A i \in 1..Len(bikes) : bikes[i].p_ignore = 100) =>
          /\ Len(bikes') = Len(bikes)
          /\ \A i \in 1..Len(bikes) : bikes'[i].right = bikes[i].right]_vars

\* two bikes with p_ignore = 1 and room to move sideways have both advanced
\* and are past a lateral phase
C18_Witness ==
    /\ pc = "forward"
    /\ result = "ok"
    /\ Len(bikes) = 2
    /\ \A i \in 1..2 :
          /\ bikes[i].p_ignore = 100
          /\ bikes[i].rightward_speed_max > 0
          /\ bikes[i].forward_speed > 0
          /\ bikes[i].right < total_width - 1

----------------------------------------------------------------------------
(* The front gap *)

RoadCoords == [lat : 0..(total_width - 1), long : 0..(L - 1)]

\* the cell d cells ahead of c, after the wrap, holds a vehicle
OccupiedAhead(c, d) ==
    [lat |-> c.lat, long |-> (c.long + d) % L] \in DOMAIN cells

\* the consecutive empty cells immediately ahead of c, L when none of the L
\* cells ahead holds a vehicle
EmptyAhead(c) ==
    IF \E d \in 1..L : OccupiedAhead(c, d)
    THEN Min({d \in 1..L : OccupiedAhead(c, d)}) - 1
    ELSE L

\* C19: cells.front_gap(c, max) is the number of consecutive empty cells
\* immediately ahead of c in c's lat column, wrapping around the ring (0 when
\* the next cell is occupied), and is max (default L) only when none of the
\* max cells ahead is occupied; Road::front_gap(R) is the minimum of it over
\* the front-edge cells of R.
C19_GapCountsEmptyCellsAhead ==
    (pc # "new" /\ result = "ok") =>
        /\ \A c \in RoadCoords : cells_front_gap(cells, c) = EmptyAhead(c)
        /\ \A v \in Agents :
              front_gap(cells, Occupation(v)) =
                 Min({EmptyAhead([lat |-> lat,
                                  long |-> Occupation(v).front % L]) :
                         lat \in width_iterator(Occupation(v))})

\* the one agent of a road that holds no other
LoneOccupier(v) == Agents = {v}

\* C20: for a lone occupier on an otherwise empty ring Road::front_gap
\* returns L - length, for every length 1 .. L - 1 and every front position,
\* length 1 and positions straddling the wrap included.
C20_LoneOccupierGap ==
    \A v \in Agents :
        (/\ pc # "new"
         /\ result = "ok"
         /\ LoneOccupier(v)
         /\ Occupation(v).length \in 1..(L - 1)) =>
            front_gap(cells, Occupation(v)) = L - Occupation(v).length

----------------------------------------------------------------------------
(* The first car behind *)

\* the cell d cells behind c, after the wrap, belongs to a car
CarBehind(c, d) ==
    LET cell == [lat |-> c.lat, long |-> (c.long - d) % L]
    IN  cell \in DOMAIN cells /\ cells[cell][1] = "Car"

\* the distances 1 .. L - 1 behind c at which a car cell lies
CarDistancesBehind(c) == {d \in 1..(L - 1) : CarBehind(c, d)}

----------------------------------------------------------------------------
(* The route width *)

\* the lats of the slice `long` (reduced modulo L) at which an agent has a
\* cell, from the agents' own fields
LatsOccupiedAt(long) ==
    {c.lat : c \in {d \in UNION {AgentCells(v) : v \in Agents} :
                       d.long = long % L}}

\* C22: route_width(long) is the smallest lat such that cell
\* (lat, long mod L) is occupied by any agent, and W = MLW + BLW if no cell
\* of the slice is occupied; it is 0 on every slice covered by a car, and
\* route_width(long) = route_width(long + L) for every long.
C22_RouteWidth ==
    (pc # "new" /\ result = "ok") =>
        /\ \A long \in (-L)..(2 * L - 1) :
              /\ route_width(cells, long) =
                    Min(LatsOccupiedAt(long) \cup {total_width})
              /\ route_width(cells, long) = route_width(cells, long + L)
        /\ \A i \in 1..Len(cars) :
              \A d \in 0..(cars[i].length - 1) :
                 route_width(cells, cars[i].front - d) = 0

\* a bike away from lat 0 has moved, and there are slices with a bike, with
\* a car and with no agent
C22_Witness ==
    /\ pc # "new"
    /\ result = "ok"
    /\ \E i \in 1..Len(bikes) : bikes[i].forward_speed > 0
    /\ \E long \in 0..(L - 1) :
          route_width(cells, long + L) \in 1..(total_width - 1)
    /\ \E long \in 0..(L - 1) : route_width(cells, long) = 0
    /\ \E long \in 0..(L - 1) : route_width(cells, long) = total_width

----------------------------------------------------------------------------
(* Insertion into the index *)

\* C23: insert(c, v) fails loudly when cell c is already occupied: it never
\* replaces the vehicle stored at c, and a failed insert leaves the index
\* unchanged.
C23_InsertKeepsOccupiedCell ==
    (pc # "new" /\ result = "ok") =>
        \A c \in DOMAIN cells :
            \A v \in {VehicleBike(1), VehicleBike(2),
                      VehicleCar(1), VehicleCar(2)} :
                insert(cells, c, v).cells = cells

----------------------------------------------------------------------------
(* The safety-filter mode *)

FilterMode(i) ==
    determine_y_prime_prime_j_t_plus_1_filter(cells, cars,
                                              bike_occupation(bikes[i]))

\* some cell of bike i has lat < MLW
TouchesMotorLane(i) ==
    \E lat \in (bikes[i].right - bikes[i].width + 1)..bikes[i].right :
        lat < MLW

\* Road::is_blocking holds of the back_left cell of bike i
BackLeftBlocked(i) ==
    is_blocking(cells, cars,
                [lat |-> bikes[i].right - bikes[i].width + 1,
                 long |-> bikes[i].front - bikes[i].length + 1])

----------------------------------------------------------------------------
(* Mean speeds *)

\* the f64 `mean` is total / count
IsMeanOf(mean, total, count) ==
    /\ mean.kind = "finite"
    /\ mean.num * count = total * mean.den

\* C24: mean_bike_speed() is the sum of the bikes' forward_speed divided by
\* the number of bikes B and mean_car_speed() is the sum of the cars' speed
\* divided by the number of cars C, for all cohort sizes B >= 1, C >= 1,
\* B different from C included.
C24_MeansDivideByCohort ==
    (pc # "new" /\ result = "ok" /\ Len(bikes) >= 1 /\ Len(cars) >= 1) =>
        /\ IsMeanOf(mean_bike_speed(bikes, cars),
                    sum([i \in 1..Len(bikes) |-> bikes[i].forward_speed]),
                    Len(bikes))
        /\ IsMeanOf(mean_car_speed(cars),
                    sum([i \in 1..Len(cars) |-> cars[i].speed]),
                    Len(cars))

\* C25: when a cohort is empty the corresponding mean-speed accessor returns
\* the 'no value' outcome and never the result of a division by zero.
C25_EmptyCohortHasNoMean ==
    (pc # "new" /\ result = "ok") =>
        /\ Len(cars) = 0 => mean_car_speed(cars).kind = "none"
        /\ Len(bikes) = 0 => mean_bike_speed(bikes, cars).kind = "none"

----------------------------------------------------------------------------
(* A lone bike that never decelerates at random *)

\* the road was built with one bike, p_decel = 0, and no other agent
LoneSureBike ==
    /\ pc # "new"
    /\ result = "ok"
    /\ Len(bikes) = 1
    /\ Len(cars) = 0
    /\ bikes[1].p_decel = 0

\* forward_speed never decreases and grows in every forward phase in which
\* it is below `limit`
GrowsTowards(limit) ==
    /\ bikes'[1].forward_speed >= bikes[1].forward_speed
    /\ (ForwardStep /\ bikes[1].forward_speed < limit) =>
          bikes'[1].forward_speed > bikes[1].forward_speed

\* C28 as stated: for a single bike with p_decel = 0 and no other agent,
\* forward_speed never decreases from one tick to the next, strictly
\* increases at every tick while it is below s_max, and from some tick on
\* equals s_max forever.
C28_SpeedReachesMax ==
    /\ [][LoneSureBike => GrowsTowards(bikes[1].forward_speed_max)]_vars
    /\ <>[](LoneSureBike =>
               bikes[1].forward_speed = bikes[1].forward_speed_max)

\* the gap a lone bike has ahead of itself: up to its own tail, the whole
\* ring when it is one cell long
LoneGap == IF bikes[1].length = 1 THEN L ELSE L - bikes[1].length

SpeedLimit == Min({bikes[1].forward_speed_max, LoneGap})

\* C28 amended: the same with min(s_max, front gap) in place of s_max, the
\* front gap of the lone bike being L - length (L for length 1): the speed
\* never decreases, strictly increases at every tick while below that
\* limit, and from some tick on equals it forever.
C28_SpeedReachesLimit ==
    /\ [][LoneSureBike => GrowsTowards(SpeedLimit)]_vars
    /\ <>[](LoneSureBike => bikes[1].forward_speed = SpeedLimit)

\* the lone bike is held at the gap to its own tail, below its s_max
C28_Witness ==
    /\ LoneSureBike
    /\ pc = "cars"
    /\ bikes[1].forward_speed = LoneGap
    /\ bikes[1].forward_speed < bikes[1].forward_speed_max

----------------------------------------------------------------------------
(* A car that cannot move *)

\* cars_update is about to run with a car whose potential next speed is 0
CarCannotMove(i) ==
    /\ pc = "cars"
    /\ result = "ok"
    /\ i \in 1..Len(cars)
    /\ next_iteration_potential_speed(cars[i]) = 0

\* C29: Car::update tolerates a car whose potential next speed
\* min(s + a(s), s_max) is 0: it does not abort, keeps the car's front and
\* sets its speed to 0; the assertion that the potential speed is non-zero
\* is never violated by a car the builder accepts.
C29_ZeroPotentialTolerated ==
    [][\A i \in 1..Len(cars) :
          CarCannotMove(i) =>
             /\ result' = "ok"
             /\ pc' = "lateral"
             /\ cars'[i].front = cars[i].front
             /\ cars'[i].speed = 0]_vars

----------------------------------------------------------------------------
(* C26, C27: the builders *)

InUnitInterval(p) == 0 <= p /\ p <= 100

ProbabilitySetters == {"with_lateral_ignorance", "with_deceleration_prob"}

\* the setter just called took a probability
SetProbability == builder.call[1] \in ProbabilitySetters

\* the builder that build() is about to consume asks for a speed above its
\* maximum speed
Speeding(self) ==
    IF builder.kind = "bike"
    THEN self.forward_speed > self.forward_speed_max
    ELSE self.speed > self.speed_max

BuildStep == pc = "build" /\ pc' = "new"

\* C26: with_lateral_ignorance(p), with_deceleration_prob(p) of BikeBuilder
\* and with_deceleration_prob(p) of CarBuilder return an error for every
\* p < 0 and every p > 1 and succeed for every p in [0, 1]; building a bike
\* or a car whose speed exceeds its maximum speed returns an error.
C26_SettersRejectBadProbabilities ==
    /\ [](SetProbability => (builder.state.ok
                               <=> InUnitInterval(builder.call[2])))
    /\ [][(BuildStep /\ Speeding(builder.state.value))
             => (result' = "err" /\ bikes' = <<>> /\ cars' = <<>>)]_vars

\* what the code does: the setters take every probability, and build()
\* rejects the probabilities outside [0, 1] and the speeds above the maximum
BuildRejectsBadInputs ==
    /\ [](SetProbability => builder.state.ok)
    /\ [][BuildStep =>
            (result' = "err"
                <=> \/ Speeding(builder.state.value)
                    \/ ~InUnitInterval(builder.state.value.deceleration_prob)
                    \/ /\ builder.kind = "bike"
                       /\ ~InUnitInterval(
                              builder.state.value.lateral_ignorance))]_vars

\* a lone bike at rest with forward acceleration a that never deliberates
\* and always decelerates, on a road that update() works on
LoneBikeAtRest(a) ==
    /\ Len(bikes) = 1
    /\ Len(cars) = 0
    /\ pc \in {"lateral", "forward", "cars"}
    /\ result = "ok"
    /\ bikes[1].forward_speed = 0
    /\ bikes[1].forward_acceleration = a
    /\ bikes[1].p_ignore = 100
    /\ bikes[1].p_decel = 100

Unchanged == bikes' = bikes /\ cells' = cells /\ result' = "ok"

AcceleratesBy(a) == builder.call = <<"with_forward_acceleration", a>>

\* C27 (as stated): a road holding a single bike with forward acceleration
\* 0, speed 0, p_ignore = 1 and p_decel = 1 and no other agent can be
\* constructed, and one update() leaves the bike's front, right and speed
\* and the index unchanged.
C27_ZeroAccelerationBikeStays ==
    /\ [](AcceleratesBy(0) => builder.state.ok)
    /\ [][LoneBikeAtRest(0) => Unchanged]_vars

\* C27 (amended): the builder refuses forward acceleration 0 and accepts 1;
\* a road holding a single bike with forward acceleration 1, speed 0,
\* p_ignore = 1 and p_decel = 1 and no other agent can be constructed, and
\* every phase of update() leaves its bikes and its index unchanged.
C27_UnitAccelerationBikeStays ==
    /\ [](AcceleratesBy(0) => ~builder.state.ok)
    /\ [](AcceleratesBy(1) => builder.state.ok)
    /\ [][LoneBikeAtRest(1) => Unchanged]_vars

\* the bike of C27 with acceleration 1 was built through the setters, the
\* road constructed, and the lateral and forward updates have run
C27_Witness ==
    /\ LoneBikeAtRest(1)
    /\ builder.kind = "bike"
    /\ builder.call[1] = "build"
    /\ pc = "cars"

----------------------------------------------------------------------------
(* The lateral candidates Y' and Y'' *)

\* the road has been constructed and nothing has failed
Constructed == pc # "new" /\ result = "ok"

YPrime(i) == y_prime_j_t_plus_1(cells, bikes[i], i)

YPrimePrime(i) == y_prime_prime_j_t_plus_1(cells, cars, bikes[i], i)

\* all cells of the occupation have lat >= MLW
InBikeLane(occ) ==
    \A lat \in (occ.right - occ.width + 1)..occ.right : lat >= MLW

\* the places in Y' of the candidates that lie in the bike lane
BikeLanePlaces(i) == {k \in 1..Len(YPrime(i)) : InBikeLane(YPrime(i)[k])}

\* C31: in MotorLaneBlocking mode, if Y' contains at least one candidate
\* with all cells at lat >= MLW then Y'' is exactly the set of those
\* candidates; otherwise Y'' is the single candidate of Y' with the greatest
\* right.
C31_BlockingModeCandidates ==
    Constructed =>
        \A i \in 1..Len(bikes) :
            FilterMode(i) = "MotorLaneBlocking" =>
                IF BikeLanePlaces(i) # {}
                THEN /\ SeqToSet(YPrimePrime(i))
                          = {YPrime(i)[k] : k \in BikeLanePlaces(i)}
                     /\ Len(YPrimePrime(i)) = Cardinality(BikeLanePlaces(i))
                ELSE /\ Len(YPrimePrime(i)) = 1
                     /\ YPrimePrime(i)[1] \in SeqToSet(YPrime(i))
                     /\ \A k \in 1..Len(YPrime(i)) :
                           YPrime(i)[k].right <= YPrimePrime(i)[1].right

\* a bike in MotorLaneBlocking mode with several candidates, none of them
\* in the bike lane
C31_Witness ==
    /\ Constructed
    /\ \E i \in 1..Len(bikes) :
          /\ FilterMode(i) = "MotorLaneBlocking"
          /\ Len(YPrime(i)) >= 2
          /\ BikeLanePlaces(i) = {}

\* a bike in MotorLaneBlocking mode with candidates in both lanes
C31_BothLanes ==
    /\ Constructed
    /\ \E i \in 1..Len(bikes) :
          /\ FilterMode(i) = "MotorLaneBlocking"
          /\ BikeLanePlaces(i) # {}
          /\ Cardinality(BikeLanePlaces(i)) < Len(YPrime(i))

\* some cell of the occupation has lat < boundary
CrossesBelow(occ, boundary) ==
    \E lat \in (occ.right - occ.width + 1)..occ.right : lat < boundary

\* Road::is_blocking holds of the back_left cell of the occupation
BackLeftBlockedOf(occ) ==
    is_blocking(cells, cars,
                [lat |-> occ.right - occ.width + 1,
                 long |-> occ.front - occ.length + 1])

\* the candidate of Y' is one of Y''
Kept(i, occ) == \E k \in 1..Len(YPrimePrime(i)) : YPrimePrime(i)[k] = occ

\* the occupations bike i can propose in the lateral phase
Proposals(i) == select_y_star(cells, cars, bikes[i], i)

\* the filter as the code applies it, with the verdict of Road::is_blocking:
\* when the mode is not MotorLaneBlocking a candidate of Y' with some cell
\* at lat < R.right is kept in Y'' iff is_blocking is false of its back_left
\* cell, a candidate with no such cell is always kept, and a proposal to
\* the left has a back_left cell of which is_blocking is false
FilterFollowsIsBlocking ==
    Constructed =>
        \A i \in 1..Len(bikes) :
            FilterMode(i) # "MotorLaneBlocking" =>
                /\ \A k \in 1..Len(YPrime(i)) :
                      Kept(i, YPrime(i)[k])
                         <=> (CrossesBelow(YPrime(i)[k], bikes[i].right)
                                 => ~BackLeftBlockedOf(YPrime(i)[k]))
                /\ \A k \in 1..Len(YPrimePrime(i)) :
                      YPrimePrime(i)[k] \in SeqToSet(YPrime(i))
                /\ \A proposal \in Proposals(i) :
                      proposal.right < bikes[i].right
                         => ~BackLeftBlockedOf(proposal)

\* blocked at the back_left cell of the occupation: the first car behind
\* the cell exists and its potential next speed strictly exceeds its
\* distance to the cell, counted forward along the ring
BackLeftReachedBy(occ) ==
    LET c == [lat |-> occ.right - occ.width + 1,
              long |-> (occ.front - occ.length + 1) % L]
        car_id == cells_first_car_back(cells, c)
    IN  /\ car_id # 0
        /\ next_iteration_potential_speed(cars[car_id])
             > ForwardDistance(cars[car_id], c)

\* C32: in MotorLaneNonBlocking and BikeLane mode, a candidate of Y' that
\* has some cell with lat < R.right (R the bike's current occupation) is
\* kept in Y'' iff its back_left cell is not blocked by a trailing car, and
\* a candidate with no cell at lat < R.right is always kept; so a bike never
\* proposes moving leftward into a cell that is blocked.
C32_BlockedCandidatesRejected ==
    Constructed =>
        \A i \in 1..Len(bikes) :
            FilterMode(i) # "MotorLaneBlocking" =>
                /\ \A k \in 1..Len(YPrime(i)) :
                      Kept(i, YPrime(i)[k])
                         <=> (CrossesBelow(YPrime(i)[k], bikes[i].right)
                                 => ~BackLeftReachedBy(YPrime(i)[k]))
                /\ \A proposal \in Proposals(i) :
                      proposal.right < bikes[i].right
                         => ~BackLeftReachedBy(proposal)

\* the last clause alone: no proposal to the left has a back_left cell that
\* the car behind it reaches in its next move
NoLeftwardMoveBeforeCar ==
    (pc = "lateral" /\ result = "ok") =>
        \A i \in 1..Len(bikes) :
            (bikes[i].p_ignore < 100
                /\ FilterMode(i) # "MotorLaneBlocking") =>
                \A proposal \in Proposals(i) :
                    proposal.right < bikes[i].right
                       => ~BackLeftReachedBy(proposal)

\* C33: on a road with no cars the safety filter removes nothing: for every
\* bike, at every position and for every r_max, Y'' equals Y' (the same
\* candidates in the same left-to-right order), also when other bikes are
\* present.
C33_NoCarsNothingFiltered ==
    (Constructed /\ Len(cars) = 0) =>
        \A i \in 1..Len(bikes) : YPrimePrime(i) = YPrime(i)

\* two bikes and no car: one of them touches the motor lane, has moved
\* forward, and has another candidate than staying, all of them with a cell
\* to the left of its right edge
C33_Witness ==
    /\ Constructed
    /\ Len(cars) = 0
    /\ Len(bikes) = 2
    /\ \E i \in 1..Len(bikes) :
          /\ TouchesMotorLane(i)
          /\ bikes[i].forward_speed > 0
          /\ \E k \in 1..Len(YPrime(i)) : YPrime(i)[k].right # bikes[i].right
          /\ \A k \in 1..Len(YPrime(i)) :
                CrossesBelow(YPrime(i)[k], bikes[i].right)

\* the cells of bike i moved to `right`, long reduced modulo L
CellsAt(i, right) ==
    {Coord(lat, long % L) :
        lat \in (right - bikes[i].width + 1)..right,
        long \in (bikes[i].front - bikes[i].length + 1)..bikes[i].front}

\* the cells of the agents other than bike i, from the agents' own fields
CellsOfOthers(i) == UNION {AgentCells(v) : v \in Agents \ {VehicleBike(i)}}

\* the rights bike i can take: within r_max of its own, on the road and
\* clear of the other agents
FreeRights(i) ==
    {right \in (bikes[i].right - bikes[i].rightward_speed_max)
                  ..(bikes[i].right + bikes[i].rightward_speed_max) :
        /\ \A c \in CellsAt(i, right) : 0 <= c.lat /\ c.lat < total_width
        /\ CellsAt(i, right) \cap CellsOfOthers(i) = {}}

\* C34: Y' consists of exactly the occupations obtained from R by setting
\* right to each value of [R.right - r_max, R.right + r_max] whose cells all
\* have lat in [0, W) and touch no cell owned by another agent, listed in
\* increasing right; in every reachable state Y' contains the bike's current
\* occupation R, so in MotorLaneBlocking mode the rightmost motor-lane
\* candidate always exists and the 'bike should be able to stay still'
\* expectation never fails.
C34_YPrimeHoldsFreeRights ==
    /\ result # "panic_expect"
    /\ Constructed =>
          \A i \in 1..Len(bikes) :
             /\ {YPrime(i)[k].right : k \in 1..Len(YPrime(i))} = FreeRights(i)
             /\ \A k \in 1..Len(YPrime(i)) :
                   /\ YPrime(i)[k] = [bike_occupation(bikes[i]) EXCEPT
                                         !.right = YPrime(i)[k].right]
                   /\ k > 1 => YPrime(i)[k - 1].right < YPrime(i)[k].right
             /\ \E k \in 1..Len(YPrime(i)) :
                   YPrime(i)[k] = bike_occupation(bikes[i])
             /\ ~y_prime_prime_panics(cells, cars, bikes[i], i)

\* a bike in MotorLaneBlocking mode that has lost a candidate within the
\* road to another agent
C34_Witness ==
    /\ Constructed
    /\ \E i \in 1..Len(bikes) :
          /\ FilterMode(i) = "MotorLaneBlocking"
          /\ \E right \in (bikes[i].right - bikes[i].rightward_speed_max)
                             ..(bikes[i].right + bikes[i].rightward_speed_max) :
                /\ right - bikes[i].width + 1 >= 0
                /\ right < total_width
                /\ right \notin FreeRights(i)

----------------------------------------------------------------------------
(* The priority comparison *)

\* the comparison puts `a` before `b`: generate_y_stars sorts Y'' ascending
\* and keeps the candidates that compare Equal with the first, so a
\* candidate is dropped as soon as another one comes before it
Prefers(a, b) == y_star_cmp_priority(cells, a, b) = "Less"

RanksEqual(a, b) == y_star_cmp_priority(cells, a, b) = "Equal"

LeftOf(occ) == occ.right - occ.width + 1

\* C35: between two lateral candidates with equal front gap, the priority
\* comparison prefers a motor-lane candidate (some cell at lat < MLW) over a
\* bike-lane candidate, prefers the motor-lane candidate with the smaller
\* left over one with a larger left, and ranks two bike-lane candidates
\* equal; between candidates with different front gap it prefers the larger
\* gap.
C35_PriorityComparison ==
    Constructed =>
        \A i \in 1..Len(bikes) :
            \A a, b \in SeqToSet(YPrimePrime(i)) :
                IF front_gap(cells, a) = front_gap(cells, b)
                THEN /\ (~InBikeLane(a) /\ InBikeLane(b)) => Prefers(a, b)
                     /\ (~InBikeLane(a) /\ ~InBikeLane(b)
                            /\ LeftOf(a) < LeftOf(b)) => Prefers(a, b)
                     /\ (InBikeLane(a) /\ InBikeLane(b)) => RanksEqual(a, b)
                ELSE front_gap(cells, a) > front_gap(cells, b)
                        => Prefers(a, b)

\* the same with the order read the other way: the preferred candidate is
\* the one that compares Greater
C35_GreaterIsPreferred ==
    Constructed =>
        \A i \in 1..Len(bikes) :
            \A a, b \in SeqToSet(YPrimePrime(i)) :
                IF front_gap(cells, a) = front_gap(cells, b)
                THEN /\ (~InBikeLane(a) /\ InBikeLane(b)) => Prefers(b, a)
                     /\ (~InBikeLane(a) /\ ~InBikeLane(b)
                            /\ LeftOf(a) < LeftOf(b)) => Prefers(b, a)
                     /\ (InBikeLane(a) /\ InBikeLane(b)) => RanksEqual(a, b)
                ELSE front_gap(cells, a) > front_gap(cells, b)
                        => Prefers(b, a)

\* what the comparison does: the smaller front gap comes first, then the
\* motor lane, then the smaller left; the candidates generate_y_stars keeps
\* are those with the smallest front gap of Y''
SmallerGapComesFirst ==
    Constructed =>
        \A i \in 1..Len(bikes) :
            /\ \A a, b \in SeqToSet(YPrimePrime(i)) :
                  IF front_gap(cells, a) = front_gap(cells, b)
                  THEN /\ (~InBikeLane(a) /\ InBikeLane(b)) => Prefers(a, b)
                       /\ (~InBikeLane(a) /\ ~InBikeLane(b)
                              /\ LeftOf(a) < LeftOf(b)) => Prefers(a, b)
                       /\ (InBikeLane(a) /\ InBikeLane(b))
                             => RanksEqual(a, b)
                  ELSE front_gap(cells, a) < front_gap(cells, b)
                          => Prefers(a, b)
            /\ \A best \in SeqToSet(generate_y_stars(cells, cars,
                                                     bikes[i], i)) :
                  \A other \in SeqToSet(YPrimePrime(i)) :
                      front_gap(cells, best) <= front_gap(cells, other)

----------------------------------------------------------------------------
(* The car phase *)

\* cars_update is called on a road on which nothing has failed
CarsPhase == pc = "cars" /\ result = "ok"

\* the cells the cars and the bikes hold, from the agents' own fields
CellsOfCar(i) == AgentCells(VehicleCar(i))

CellsOfBikes == UNION {AgentCells(VehicleBike(i)) : i \in 1..Len(bikes)}

\* C36: from every state that satisfies the invariants after the bike
\* phases, cars_update never hits an occupied cell when inserting the
\* advanced cars (it never returns Err): all cars choose their speed from
\* the same index, a car's width grows with its new speed, and the random
\* deceleration may replace the chosen safe speed k by k - 1 (also 0).
C36_CarsNeverCollide ==
    /\ [][CarsPhase => result' # "err"]_vars
    /\ [](Constructed =>
             \A i \in 1..Len(cars) :
                /\ CellsOfCar(i) \cap CellsOfBikes = {}
                /\ \A j \in 1..Len(cars) :
                      j # i => CellsOfCar(i) \cap CellsOfCar(j) = {}
                /\ \A c \in CellsOfCar(i) : cells[c] = VehicleCar(i))

\* two cars and a bike after a car phase in which one car has stayed where
\* it was and the other has moved
C36_Witness ==
    /\ pc = "lateral"
    /\ result = "ok"
    /\ Len(bikes) = 1
    /\ Len(cars) = 2
    /\ \E i, j \in 1..Len(cars) :
          /\ cars[i].speed = 0
          /\ cars[j].speed >= 2

\* a car and a bike after a car phase that has left the car wider than a
\* car at rest
C36_WiderCar ==
    /\ pc = "lateral"
    /\ result = "ok"
    /\ Len(bikes) = 1
    /\ Len(cars) = 1
    /\ CarWidth(cars[1]) > WidthAtSpeed(cars[1], 0)

\* C37: a car never jumps over another vehicle: if a car advances by k in a
\* tick, then for every j in 1..k the placement with front + j and the
\* width of speed j collides with no other vehicle in the pre-phase index;
\* the chosen speed is 0 as soon as the placement for k = 1 collides, even
\* if some larger k would be collision-free.
C37_NoJumpOverVehicle ==
    [][CarsStep =>
         \A i \in 1..Len(cars) :
            /\ cars'[i].front = (cars[i].front + cars'[i].speed) % L
            /\ \A j \in 1..cars'[i].speed : SafeAt(i, j)
            /\ ~SafeAt(i, 1) => (cars'[i].speed = 0
                                   /\ cars'[i].front = cars[i].front)]_vars

\* a car that the car phase has left at rest behind a bike that does not
\* move: the placement of speed 1 collides, and a larger speed within its
\* potential speed would place it clear of every vehicle
C37_Witness ==
    /\ pc = "lateral"
    /\ result = "ok"
    /\ Len(cars) = 1
    /\ Len(bikes) = 1
    /\ bikes[1].forward_speed = 0
    /\ bikes[1].p_decel = 100
    /\ cars[1].speed = 0
    /\ ~SafeAt(1, 1)
    /\ \E k \in 2..next_iteration_potential_speed(cars[1]) : SafeAt(1, k)

----------------------------------------------------------------------------
(* The turns of the lateral acceptance *)

\* the lateral phase is about to run its acceptance loop
AcceptanceRuns ==
    /\ pc = "lateral"
    /\ result = "ok"
    /\ ~\E i \in 1..Len(bikes) :
           /\ FALSE \in Sample(bikes[i].p_ignore)
           /\ y_prime_prime_panics(cells, cars, bikes[i], i)

\* the index at turn k of `order`: the bikes are wiped and the first k - 1
\* turns have been inserted
IndexAtTurn(order, proposals, k) ==
    lateral_accept(wipe_bikes_from_cells(cells, bikes).cells, bikes,
                   SubSeq(order, 1, k - 1), proposals, 1).cells

\* the proposal of turn k is rejected
RejectedAtTurn(order, proposals, k) ==
    ~collisions_for_is_empty(IndexAtTurn(order, proposals, k),
                             bike_occupation(proposals[order[k]]))

\* the proposal of turn k shares a cell with the proposal of an earlier turn
\* that was accepted
OverlapsEarlierAccepted(order, proposals, k) ==
    \E j \in 1..(k - 1) :
       /\ ~RejectedAtTurn(order, proposals, j)
       /\ BikeCells(proposals[order[k]])
             \cap BikeCells(proposals[order[j]]) # {}

\* C38: during lateral acceptance no insert overwrites an existing index
\* entry: whenever a bike's proposal is rejected, all of its pre-phase cells
\* are free in the index at that moment; a proposal is only rejected because
\* it overlaps the accepted proposal of a bike earlier in the shuffled
\* order, never because of a car, and the first bike in the order is always
\* accepted.
C38_RejectedBikeFindsItsCellsFree ==
    /\ [](AcceptanceRuns =>
            \A proposals \in next_bikes_lateral(cells, bikes, cars) :
               \A order \in Shuffles(Len(bikes)) :
                  \A k \in 1..Len(bikes) :
                     /\ RejectedAtTurn(order, proposals, k) =>
                           /\ collisions_for_is_empty(
                                  IndexAtTurn(order, proposals, k),
                                  bike_occupation(bikes[order[k]]))
                           /\ BikeCells(proposals[order[k]]) \cap CarCells = {}
                           /\ OverlapsEarlierAccepted(order, proposals, k)
                           /\ k # 1
                     /\ ~RejectedAtTurn(order, proposals, k) =>
                           \A c \in BikeCells(proposals[order[k]]) :
                              get(IndexAtTurn(order, proposals, k),
                                  c.lat, c.long) = None)
    /\ [][LateralStep =>
            /\ CarCells' = CarCells
            /\ \A c \in CarCells : cells'[c] = cells[c]
            /\ \A i \in 1..Len(bikes) :
                  \A c \in BikeCells(bikes'[i]) :
                     c \in DOMAIN cells' /\ cells'[c] = VehicleBike(i)]_vars

\* beside a car, two bikes enter a lateral phase in which, for some order,
\* the bike of the second turn proposes to move and is rejected
C38_Witness ==
    /\ AcceptanceRuns
    /\ Len(bikes) = 2
    /\ Len(cars) >= 1
    /\ \E proposals \in next_bikes_lateral(cells, bikes, cars) :
          \E order \in Shuffles(2) :
             /\ proposals[order[2]] # bikes[order[2]]
             /\ RejectedAtTurn(order, proposals, 2)

----------------------------------------------------------------------------
(* Rotation of the ring *)

\* the index, the bikes and the cars with every long moved forward by
\* `offset` cells around the ring
RotatedCells(offset) ==
    [c \in {Coord(k.lat, (k.long + offset) % L) : k \in DOMAIN cells} |->
        cells[Coord(c.lat, (c.long - offset) % L)]]

RotatedBikes(offset) ==
    [i \in 1..Len(bikes) |->
        [bikes[i] EXCEPT !.front = (bikes[i].front + offset) % L]]

RotatedCars(offset) ==
    [i \in 1..Len(cars) |->
        [cars[i] EXCEPT !.front = (cars[i].front + offset) % L]]

\* the rights of the candidates, in their order
RightsOf(candidates) == [k \in 1..Len(candidates) |-> candidates[k].right]

\* is_blocking gives the same verdict on the cell before and after the
\* rotation
SameVerdictAt(coord, offset) ==
    is_blocking(RotatedCells(offset), RotatedCars(offset),
                Coord(coord.lat, (coord.long + offset) % L))
       = is_blocking(cells, cars, coord)

\* bike i has the same filter mode and the same Y'' before and after the
\* rotation
SameChoiceOf(i, offset) ==
    /\ determine_y_prime_prime_j_t_plus_1_filter(
           RotatedCells(offset), RotatedCars(offset),
           bike_occupation(RotatedBikes(offset)[i]))
          = determine_y_prime_prime_j_t_plus_1_filter(
                cells, cars, bike_occupation(bikes[i]))
    /\ RightsOf(y_prime_prime_j_t_plus_1(RotatedCells(offset),
                                         RotatedCars(offset),
                                         RotatedBikes(offset)[i], i))
          = RightsOf(YPrimePrime(i))

\* C39: is_blocking measures the distance to the car behind modulo L:
\* rotating every agent and the queried cell by the same long offset never
\* changes is_blocking's result, the filter mode or Y'', including when the
\* car behind the cell lies across the wrap seam.
C39_RotationChangesNothing ==
    Constructed =>
       \A offset \in 0..(L - 1) :
          /\ \A lat \in 0..(total_width - 1) :
                \A long \in 0..(L - 1) :
                   SameVerdictAt(Coord(lat, long), offset)
          /\ \A i \in 1..Len(bikes) :
                ~y_prime_prime_panics(cells, cars, bikes[i], i)
                   => SameChoiceOf(i, offset)

\* is_blocking alone is unchanged by every rotation
BlockingVerdictRotates ==
    Constructed =>
       \A offset \in 0..(L - 1) :
          \A lat \in 0..(total_width - 1) :
             \A long \in 0..(L - 1) :
                SameVerdictAt(Coord(lat, long), offset)

\* every bike's filter mode and Y'' are unchanged by every rotation
ChoiceRotates ==
    Constructed =>
       \A offset \in 0..(L - 1) :
          \A i \in 1..Len(bikes) :
             (/\ ~y_prime_prime_panics(cells, cars, bikes[i], i)
              /\ ~y_prime_prime_panics(RotatedCells(offset),
                                       RotatedCars(offset),
                                       RotatedBikes(offset)[i], i))
                => SameChoiceOf(i, offset)

----------------------------------------------------------------------------
(* Rectangles *)

\* the rectangles at hand in a state: the occupation of every bike and car
\* and every place a bike could shift to, on the road or off it
OccupationsAtHand ==
    {bike_occupation(bikes[i]) : i \in 1..Len(bikes)}
    \cup {car_occupation(cars[i]) : i \in 1..Len(cars)}
    \cup UNION {{[bike_occupation(bikes[i]) EXCEPT
                     !.right = potential_lateral_positions(bikes[i])[k]] :
                   k \in 1..Len(potential_lateral_positions(bikes[i]))} :
                i \in 1..Len(bikes)}

\* the cells with right - width + 1 <= lat <= right and
\* front - length + 1 <= long <= front
CellsWithin(occ) ==
    {Coord(lat, long) : lat \in (occ.right - occ.width + 1)..occ.right,
                        long \in (occ.front - occ.length + 1)..occ.front}

\* C40: a rectangle occupation (front, right, width, length) with positive
\* width and length covers exactly width * length distinct cells, those
\* with right - width + 1 <= lat <= right and
\* front - length + 1 <= long <= front; its width iterator yields exactly
\* width lats and its length iterator exactly length longs; its front cells
\* are the width cells (lat, front) for lat from left to right in
\* increasing order.
C40_RectangleCoversItsCells ==
    \A occ \in OccupationsAtHand :
       (occ.width > 0 /\ occ.length > 0) =>
          /\ Len(occupied_cells(occ)) = occ.width * occ.length
          /\ Cardinality(SeqToSet(occupied_cells(occ)))
                = occ.width * occ.length
          /\ SeqToSet(occupied_cells(occ)) = CellsWithin(occ)
          /\ Cardinality(width_iterator(occ)) = occ.width
          /\ Cardinality(length_iterator(occ)) = occ.length
          /\ Len(front_cells(occ)) = occ.width
          /\ \A k \in 1..occ.width :
                front_cells(occ)[k]
                   = Coord(occ.right - occ.width + k, occ.front)

\* after a car phase, a bike two cells wide and two long that has advanced
\* to front 0, so that its tail lies across the seam of the ring
C40_Witness ==
    /\ pc = "lateral"
    /\ result = "ok"
    /\ \E i \in 1..Len(bikes) :
          /\ bikes[i].width = 2
          /\ bikes[i].length = 2
          /\ bikes[i].forward_speed > 0
          /\ bikes[i].front = 0

\* after a car phase, a car whose rectangle is wider than at rest
C40_GrownCar ==
    /\ pc = "lateral"
    /\ result = "ok"
    /\ \E i \in 1..Len(cars) :
          /\ cars[i].speed > 0
          /\ car_occupation(cars[i]).width > WidthAtSpeed(cars[i], 0)

====
